---- MODULE Spec2Model ----
(***************************************************************************)
(* Resilience layer of the offshore-leaks server: circuit breaker, retry   *)
(* loop, error classification and the ResilienceManager that composes      *)
(* them around the Neo4j gateway (resilience.py, database.py), graceful    *)
(* shutdown, and the service's parameter validation (service.py).          *)
(*                                                                         *)
(* The specifications of the module:                                       *)
(*   SpecCB       a CircuitBreaker driven directly through its methods     *)
(*   SpecRetry    retry_async around an arbitrary awaitable                *)
(*   Spec         the process-wide ResilienceManager, concurrent callers   *)
(*   SpecDB       the gateway's methods behind database_resilient          *)
(*   SpecShutdown GracefulShutdown with concurrent callers of shutdown     *)
(*   SpecService  OffshoreLeaksService on top of the gateway               *)
(*   SpecGateway  the gateway's methods called directly, one at a time     *)
(*   SpecServer   OffshoreLeaksServer: start, stop and health_check        *)
(*   SpecClassifier, SpecDelay, SpecWhere  the pure functions of           *)
(*                ErrorClassifier, calculate_delay and                     *)
(*                build_where_conditions applied to inputs drawn by Init   *)
(* Time is time.time() in seconds; it only moves forward.                  *)
(***************************************************************************)
EXTENDS Integers, Sequences, FiniteSets, TLC

VARIABLES
    now,        \* time.time(), seconds
    cb,         \* SpecCB: the CircuitBreaker under direct use
    last,       \* SpecCB: the last method called on cb: its return value, the breaker
                \* before it, the time of the call and of the latest record_failure
    streak,     \* SpecCB: record_failure calls since construction / the last record_success
    rt,         \* SpecRetry: one call of a retry_async wrapper
    breakers,       \* resilience_manager.circuit_breakers
    error_counts,   \* resilience_manager.error_counts
    last_errors,    \* resilience_manager.last_errors
    db,             \* the Neo4jDatabase gateway: _driver, _connected
    calls,          \* the execute_with_resilience call each caller has in flight
    started,        \* calls started so far
    shutdown_hooks,     \* GracefulShutdown.shutdown_hooks: what each registered hook does
    is_shutting_down,   \* GracefulShutdown.is_shutting_down
    sd,                 \* the shutdown() call of each caller
    hook_log,           \* the hooks started and ended so far, in order
    ec,         \* SpecClassifier: an error, an ErrorType and what ErrorClassifier returned
    dl,         \* SpecDelay: the arguments of calculate_delay and what it returned
    qb,         \* SpecWhere: the arguments of build_where_conditions and what it returned
    svc,        \* SpecService: the request the service is handling and what it did
    gw,         \* SpecGateway: a gateway used directly, and the calls its driver saw
    srv,        \* SpecServer: the OffshoreLeaksServer and the calls made on it
    api         \* SpecApi: the REST application and the requests it answered

cbVars == <<cb, last, streak>>
mgrVars == <<breakers, error_counts, last_errors, db, calls, started>>
gsVars == <<shutdown_hooks, is_shutting_down, sd, hook_log>>
fnVars == <<ec, dl, qb>>
svcVars == <<svc, gw, srv, api>>
restVars == <<gsVars, fnVars, svcVars>>
vars == <<now, cb, last, streak, rt, breakers, error_counts, last_errors, db, calls, started,
          shutdown_hooks, is_shutting_down, sd, hook_log, ec, dl, qb, svc, gw, srv, api>>

-----------------------------------------------------------------------------
(* Bounds of the model *)

MaxTime == 61            \* the clock stops here
MaxThreshold == 3        \* SpecCB: failure_threshold ranges over 1..MaxThreshold
MaxOps == 7              \* SpecCB: record_failure calls made on the breaker

MaxAttempts == 4         \* SpecRetry: max_attempts ranges over 0..MaxAttempts

MaxCalls == 2            \* Spec: execute_with_resilience calls started in one run
MaxDBCalls == 2          \* SpecDB: gateway calls started in one run

MaxHooks == 3            \* SpecShutdown: hooks registered
MaxShutdownCalls == 2    \* SpecShutdown: shutdown() calls made by one caller
MaxBlock == 7            \* SpecShutdown: how long a hook that never yields is watched

MaxDelayAttempt == 4     \* SpecDelay: attempt ranges over 1..MaxDelayAttempt
RandomSteps == 4         \* SpecDelay: random.random() ranges over k / RandomSteps, k < RandomSteps

MaxServiceCalls == 2     \* SpecService: operations of the service called in one run
MaxRows == 2             \* SpecService: rows a query returns range over 0..MaxRows
MaxConditions == 3       \* SpecWhere: conditions in the map given to build_where_conditions
MaxGatewayOps == 4       \* SpecGateway: methods of the gateway called in one run
MaxServerCalls == 4      \* SpecServer: methods of the server called in one run
MaxApiCalls == 2         \* SpecApi: requests the REST application answers in one run

\* Amounts of time that pass between two steps of the program.
Elapse == {30}

\* recovery_timeout values tried by SpecCB: the two the manager configures.
Timeouts == {30, 60}

-----------------------------------------------------------------------------
(* CircuitBreaker (resilience.py 41-95) *)

CLOSED == "closed"
OPEN == "open"
HALF_OPEN == "half_open"

CircuitBreakerState == {CLOSED, OPEN, HALF_OPEN}

\* Python's None for last_failure_time is the empty tuple, a time t is <<t>>.
None == << >>

CircuitBreakerConfig(threshold, timeout) ==
    [failure_threshold |-> threshold, recovery_timeout |-> timeout]

\* CircuitBreaker.__init__
CircuitBreaker(config) ==
    [config |-> config, failure_count |-> 0, last_failure_time |-> None, state |-> CLOSED]

\* truth value of self.last_failure_time: None and 0.0 are both false
Truthy(lft) == lft # None /\ lft[1] # 0

\* the condition under which an open breaker lets a trial through
RecoveryElapsed(b, t) ==
    /\ Truthy(b.last_failure_time)
    /\ t - b.last_failure_time[1] >= b.config.recovery_timeout

\* can_execute that forgets the failures when it lets the trial through
can_execute_clears(b, t) ==
    IF b.state = OPEN /\ RecoveryElapsed(b, t)
    THEN [ret |-> TRUE, cb |-> [b EXCEPT !.state = HALF_OPEN, !.failure_count = 0]]
    ELSE [ret |-> b.state # OPEN, cb |-> b]

\* can_execute at time t: the value returned and the breaker afterwards
can_execute(b, t) ==
    IF b.state = CLOSED THEN [ret |-> TRUE, cb |-> b]
    ELSE IF b.state = OPEN
         THEN IF RecoveryElapsed(b, t)
              THEN [ret |-> TRUE, cb |-> [b EXCEPT !.state = HALF_OPEN]]
              ELSE [ret |-> FALSE, cb |-> b]
         ELSE [ret |-> TRUE, cb |-> b]

record_success(b) == [b EXCEPT !.failure_count = 0, !.state = CLOSED]

\* record_failure that counts and leaves the state alone
record_failure_counts_only(b, t) ==
    [b EXCEPT !.failure_count = b.failure_count + 1, !.last_failure_time = <<t>>]

\* record_failure that opens only above the threshold
record_failure_above(b, t) ==
    LET c == b.failure_count + 1
    IN  [b EXCEPT !.failure_count = c,
                  !.last_failure_time = <<t>>,
                  !.state = IF c > b.config.failure_threshold THEN OPEN ELSE @]

record_failure(b, t) ==
    LET c == b.failure_count + 1
    IN  [b EXCEPT !.failure_count = c,
                  !.last_failure_time = <<t>>,
                  !.state = IF c >= b.config.failure_threshold THEN OPEN ELSE @]

-----------------------------------------------------------------------------
(* The clock *)

Tick ==
    /\ \E d \in Elapse : now + d <= MaxTime /\ now' = now + d

-----------------------------------------------------------------------------
(* SpecCB: one CircuitBreaker, its methods called in any order *)

CBInit ==
    /\ now = 1
    /\ \E n \in 1..MaxThreshold, tmo \in Timeouts :
           cb = CircuitBreaker(CircuitBreakerConfig(n, tmo))
    /\ last = [op |-> "init", ret |-> TRUE, pre |-> cb, at |-> now, failed_at |-> 0]
    /\ streak = 0

CBCanExecute ==
    LET r == can_execute(cb, now)
    IN  /\ cb' = r.cb
        /\ last' = [op |-> "can_execute", ret |-> r.ret, pre |-> cb, at |-> now,
                    failed_at |-> last.failed_at]
        /\ UNCHANGED <<now, streak, rt, mgrVars, restVars>>

CBRecordSuccess ==
    /\ cb' = record_success(cb)
    /\ last' = [op |-> "record_success", ret |-> TRUE, pre |-> cb, at |-> now,
                failed_at |-> last.failed_at]
    /\ streak' = 0
    /\ UNCHANGED <<now, rt, mgrVars, restVars>>

CBRecordFailure ==
    /\ streak < MaxOps
    /\ cb' = record_failure(cb, now)
    /\ last' = [op |-> "record_failure", ret |-> TRUE, pre |-> cb, at |-> now,
                failed_at |-> now]
    /\ streak' = streak + 1
    /\ UNCHANGED <<now, rt, mgrVars, restVars>>

CBTick == Tick /\ UNCHANGED <<cbVars, rt, mgrVars, restVars>>


-----------------------------------------------------------------------------
(* Errors and their messages *)

\* A message is a tuple of words; str(e).lower() lowers each word.
Lower(w) ==
    CASE w = "Connection" -> "connection"
      [] w = "Database"   -> "database"
      [] w = "Query"      -> "query"
      [] w = "Health"     -> "health"
      [] w = "Circuit"    -> "circuit"
      [] w = "Syntax"     -> "syntax"
      [] w = "Timeout"    -> "timeout"
      [] OTHER            -> w

LowerMsg(m) == [i \in 1..Len(m) |-> Lower(m[i])]

\* keyword in msg (substring test, on words)
Contains(m, kw) ==
    \E i \in 0..(Len(m) - Len(kw)) : \A j \in 1..Len(kw) : m[i + j] = kw[j]

ContainsAny(m, kws) == \E kw \in kws : Contains(m, kw)

\* exception classes; QueryError and ConnectionError are database.py's,
\* neither derives from RetryableError or NonRetryableError
RetryableErrorCls == "RetryableError"
NonRetryableErrorCls == "NonRetryableError"
ExceptionCls == "Exception"
QueryErrorCls == "QueryError"

\* ErrorType (resilience.py 17-26)
DATABASE_CONNECTION == "database_connection"
QUERY_TIMEOUT == "query_timeout"
QUERY_ERROR == "query_error"
VALIDATION_ERROR == "validation_error"
NETWORK_ERROR == "network_error"
RESOURCE_EXHAUSTION == "resource_exhaustion"
UNKNOWN == "unknown"

ErrorType == {DATABASE_CONNECTION, QUERY_TIMEOUT, QUERY_ERROR, VALIDATION_ERROR,
              NETWORK_ERROR, RESOURCE_EXHAUSTION, UNKNOWN}

\* an exception object: its class, str(e), and error_type where the class has one
Error(cls, msg, et) == [cls |-> cls, msg |-> msg, error_type |-> et]

\* a value returned by an awaitable
Ok == [cls |-> "ok", msg |-> << >>, error_type |-> UNKNOWN]

IsRetryableError(e) == e.cls = RetryableErrorCls
IsNonRetryableError(e) == e.cls = NonRetryableErrorCls

-----------------------------------------------------------------------------
(* retry_async (resilience.py 134-184) *)

\* RetryConfig; jitter and backoff_strategy are left at their defaults wherever
\* the program builds one. The delay fields only feed asyncio.sleep.
RetryConfig(attempts, base, maxd, expb) ==
    [max_attempts |-> attempts, base_delay |-> base, max_delay |-> maxd,
     exponential_base |-> expb, jitter |-> TRUE, backoff_strategy |-> "exponential"]

\* state of one call of the wrapper
RetryIdle ==
    [pc |-> "idle", attempt |-> 0, last_exception |-> << >>, result |-> Ok, slept |-> 0]

AllAttemptsFailed == Error(ExceptionCls, <<"All", "retry", "attempts", "failed">>, UNKNOWN)

\* entering the wrapper: the first iteration of `for attempt in range(1, max_attempts + 1)`,
\* or the fall-through when the range is empty
retry_enter(config) ==
    IF config.max_attempts >= 1
    THEN [RetryIdle EXCEPT !.pc = "running", !.attempt = 1]
    ELSE [RetryIdle EXCEPT !.pc = "raised", !.result = AllAttemptsFailed]

\* retry_outcome that sleeps after the last attempt too and makes one more
retry_outcome_one_more(config, r, out) ==
    IF out.cls = "ok"
    THEN [r EXCEPT !.pc = "returned", !.result = out]
    ELSE IF IsRetryableError(out) /\ r.attempt <= config.max_attempts
    THEN [r EXCEPT !.pc = "sleeping", !.last_exception = <<out>>, !.slept = r.slept + 1]
    ELSE [r EXCEPT !.pc = "raised", !.result = out]

\* retry_outcome that gives up one attempt early
retry_outcome_early(config, r, out) ==
    IF out.cls = "ok"
    THEN [r EXCEPT !.pc = "returned", !.result = out]
    ELSE IF IsRetryableError(out) /\ r.attempt + 1 < config.max_attempts
    THEN [r EXCEPT !.pc = "sleeping", !.last_exception = <<out>>, !.slept = r.slept + 1]
    ELSE [r EXCEPT !.pc = "raised", !.result = out]

\* retry_outcome that retries whatever is not marked non-retryable
retry_outcome_retries_unknown(config, r, out) ==
    IF out.cls = "ok"
    THEN [r EXCEPT !.pc = "returned", !.result = out]
    ELSE IF IsNonRetryableError(out) \/ r.attempt = config.max_attempts
    THEN [r EXCEPT !.pc = "raised", !.result = out]
    ELSE [r EXCEPT !.pc = "sleeping", !.last_exception = <<out>>, !.slept = r.slept + 1]

\* the awaited function finished with `out` on attempt r.attempt
retry_outcome(config, r, out) ==
    IF out.cls = "ok"
    THEN [r EXCEPT !.pc = "returned", !.result = out]
    ELSE IF IsNonRetryableError(out)
    THEN [r EXCEPT !.pc = "raised", !.result = out]
    ELSE IF IsRetryableError(out)
    THEN IF r.attempt = config.max_attempts
         THEN [r EXCEPT !.pc = "raised", !.last_exception = <<out>>, !.result = out]
         ELSE [r EXCEPT !.pc = "sleeping", !.last_exception = <<out>>,
                        !.slept = r.slept + 1]
    ELSE [r EXCEPT !.pc = "raised", !.result = out]

\* asyncio.sleep returned: the next iteration of the loop
retry_wake(r) == [r EXCEPT !.pc = "running", !.attempt = r.attempt + 1]

-----------------------------------------------------------------------------
(* ErrorClassifier (resilience.py 209-262) *)

ConnectionKeywords ==
    {<<"connection", "refused">>, <<"connection", "failed">>, <<"network", "error">>,
     <<"connection", "lost">>, <<"connection", "timeout">>, <<"host", "unreachable">>}

TimeoutKeywords == {<<"timeout">>, <<"timed", "out">>, <<"deadline", "exceeded">>}

QueryKeywords ==
    {<<"syntax", "error">>, <<"invalid", "query">>, <<"constraint", "violation">>}

classify_database_error(e) ==
    LET error_msg == LowerMsg(e.msg)
    IN  IF ContainsAny(error_msg, ConnectionKeywords) THEN DATABASE_CONNECTION
        ELSE IF ContainsAny(error_msg, TimeoutKeywords) THEN QUERY_TIMEOUT
        ELSE IF ContainsAny(error_msg, QueryKeywords) THEN QUERY_ERROR
        ELSE UNKNOWN

retryable_types == {DATABASE_CONNECTION, QUERY_TIMEOUT, NETWORK_ERROR, RESOURCE_EXHAUSTION}

\* is_retryable that looks at the error type alone
is_retryable_by_type(e, error_type) == error_type \in retryable_types

is_retryable(e, error_type) ==
    IF IsNonRetryableError(e) THEN FALSE
    ELSE IF IsRetryableError(e) THEN TRUE
    ELSE error_type \in retryable_types

-----------------------------------------------------------------------------
(* ResilienceManager (resilience.py 265-358); delays are in tenths of a second *)

DefaultRetryConfig == RetryConfig(3, 10, 600, 20)

retry_configs ==
    [et \in {DATABASE_CONNECTION, QUERY_TIMEOUT, NETWORK_ERROR} |->
        CASE et = DATABASE_CONNECTION -> RetryConfig(5, 20, 300, 20)
          [] et = QUERY_TIMEOUT       -> RetryConfig(3, 10, 100, 15)
          [] et = NETWORK_ERROR       -> RetryConfig(4, 15, 200, 20)]

circuit_breakers ==
    [name \in {"database", "query_engine"} |->
        IF name = "database"
        THEN CircuitBreaker(CircuitBreakerConfig(3, 30))
        ELSE CircuitBreaker(CircuitBreakerConfig(5, 60))]

\* get_retry_config that hands every error type the connection policy
get_retry_config_connection(error_type) == retry_configs[DATABASE_CONNECTION]

get_retry_config(error_type) ==
    IF error_type \in DOMAIN retry_configs
    THEN retry_configs[error_type]
    ELSE DefaultRetryConfig

\* record_error that keeps the first snapshot of a type
record_error_keeps_first(W, e, error_type, t) ==
    LET et == IF error_type = "None" THEN classify_database_error(e) ELSE error_type
    IN  [W EXCEPT !.error_counts[et] = @ + 1,
                  !.last_errors[et] = IF @ = None
                                      THEN <<[error |-> e.msg, timestamp |-> t]>>
                                      ELSE @]

\* A world is the manager's state, the gateway's state and one caller's call.
\* record_error(error, error_type) at time t
record_error(W, e, error_type, t) ==
    LET et == IF error_type = "None" THEN classify_database_error(e) ELSE error_type
    IN  [W EXCEPT !.error_counts[et] = @ + 1,
                  !.last_errors[et] = <<[error |-> e.msg, timestamp |-> t]>>]

\* A call that has not started. Besides the locals of execute_with_resilience
\* and of its wrappers (func, error_type, breaker, config, r) a call records what
\* it did: whether func is in flight, how often func was invoked, can_execute
\* called and refused, record_success and record_failure called, how often func
\* raised and its latest exception, the breaker's state
\* when the attempt in flight was admitted, its state and failure_count when
\* the call began, whether
\* every exception of func so far was a RetryableError of kind database_connection,
\* and how many attempts raised in the earlier calls of the same caller.
CallIdle ==
    [func |-> "none", error_type |-> UNKNOWN, breaker |-> "none",
     config |-> DefaultRetryConfig, r |-> RetryIdle, inflight |-> FALSE,
     invoked |-> 0, checks |-> 0, rejected |-> 0, rec_s |-> 0, rec_f |-> 0,
     failures |-> 0, underlying |-> << >>,
     admitted |-> "none", start |-> [state |-> "none", failure_count |-> 0],
     conn_only |-> TRUE, prior |-> 0]

\* execute_with_resilience(func, error_type, circuit_breaker_name) up to the
\* first iteration of the retry loop
NewCall(W, func, error_type, name) ==
    LET config == get_retry_config(error_type)
    IN  [CallIdle EXCEPT !.func = func, !.error_type = error_type, !.breaker = name,
                         !.config = config, !.r = retry_enter(config),
                         !.prior = W.call.prior + W.call.failures + W.call.rejected,
                         !.start = IF name \in DOMAIN W.breakers
                                   THEN [state |-> W.breakers[name].state,
                                         failure_count |-> W.breakers[name].failure_count]
                                   ELSE @]

\* on_exception that records an error only while the type's counter is 0
on_exception_counts_once(W, e, t) ==
    LET classified_type == classify_database_error(e)
        W1 == IF W.error_counts[classified_type] = 0
              THEN record_error(W, e, classified_type, t)
              ELSE W
        raised == IF is_retryable(e, classified_type)
                  THEN Error(RetryableErrorCls, e.msg, classified_type)
                  ELSE Error(NonRetryableErrorCls, e.msg, classified_type)
    IN  [W1 EXCEPT !.call.r = retry_outcome(W.call.config, W.call.r, raised)]

\* the except branch of retryable_func (347-356), then the retry loop's handling
on_exception(W, e, t) ==
    LET classified_type == classify_database_error(e)
        W1 == record_error(W, e, classified_type, t)
        raised == IF is_retryable(e, classified_type)
                  THEN Error(RetryableErrorCls, e.msg, classified_type)
                  ELSE Error(NonRetryableErrorCls, e.msg, classified_type)
    IN  [W1 EXCEPT !.call.r = retry_outcome(W.call.config, W.call.r, raised)]

CircuitBreakerIs(state) == Error(ExceptionCls, <<"Circuit", "breaker", "is", state>>, UNKNOWN)

\* attempt_begin that counts a refused attempt as a failure of the resource
attempt_begin_counts_refusal(W, t) ==
    IF W.call.breaker \in DOMAIN W.breakers
    THEN LET a == can_execute(W.breakers[W.call.breaker], t)
             W1 == [W EXCEPT !.breakers[W.call.breaker] = a.cb, !.call.checks = @ + 1]
         IN  IF a.ret
             THEN [W1 EXCEPT !.call.invoked = @ + 1, !.call.inflight = TRUE,
                             !.call.admitted = a.cb.state]
             ELSE on_exception([W1 EXCEPT !.call.rejected = @ + 1,
                                          !.breakers[W.call.breaker] = record_failure(@, t)],
                               CircuitBreakerIs(a.cb.state), t)
    ELSE [W EXCEPT !.call.invoked = @ + 1, !.call.inflight = TRUE]

\* with_circuit_breaker's admission check (193-194): the start of an attempt
attempt_begin(W, t) ==
    IF W.call.breaker \in DOMAIN W.breakers
    THEN LET a == can_execute(W.breakers[W.call.breaker], t)
             W1 == [W EXCEPT !.breakers[W.call.breaker] = a.cb, !.call.checks = @ + 1]
         IN  IF a.ret
             THEN [W1 EXCEPT !.call.invoked = @ + 1, !.call.inflight = TRUE,
                             !.call.admitted = a.cb.state]
             ELSE on_exception([W1 EXCEPT !.call.rejected = @ + 1],
                               CircuitBreakerIs(a.cb.state), t)
    ELSE [W EXCEPT !.call.invoked = @ + 1, !.call.inflight = TRUE]

\* attempt_end whose breaker expects RetryableError only and lets the rest pass unrecorded
attempt_end_skips_unexpected(W, out, t) ==
    LET name == W.call.breaker
        W1 == IF name \in DOMAIN W.breakers
              THEN IF out.cls = "ok"
                   THEN [W EXCEPT !.breakers[name] = record_success(@),
                                  !.call.rec_s = @ + 1]
                   ELSE IF IsRetryableError(out)
                   THEN [W EXCEPT !.breakers[name] = record_failure(@, t),
                                  !.call.rec_f = @ + 1]
                   ELSE W
              ELSE W
        W2 == [W1 EXCEPT !.call.inflight = FALSE, !.call.admitted = "none"]
    IN  IF out.cls = "ok"
        THEN [W2 EXCEPT !.call.r = retry_outcome(W.call.config, W.call.r, Ok)]
        ELSE on_exception([W2 EXCEPT !.call.failures = @ + 1,
                                     !.call.underlying = <<out>>],
                          out, t)

\* with_circuit_breaker after func finished with `out` (196-202), then retryable_func
attempt_end(W, out, t) ==
    LET name == W.call.breaker
        W1 == IF name \in DOMAIN W.breakers
              THEN IF out.cls = "ok"
                   THEN [W EXCEPT !.breakers[name] = record_success(@),
                                  !.call.rec_s = @ + 1]
                   ELSE [W EXCEPT !.breakers[name] = record_failure(@, t),
                                  !.call.rec_f = @ + 1]
              ELSE W
        W2 == [W1 EXCEPT !.call.inflight = FALSE, !.call.admitted = "none"]
    IN  IF out.cls = "ok"
        THEN [W2 EXCEPT !.call.r = retry_outcome(W.call.config, W.call.r, Ok)]
        ELSE on_exception([W2 EXCEPT !.call.failures = @ + 1,
                                     !.call.underlying = <<out>>,
                                     !.call.conn_only =
                                         /\ @
                                         /\ IsRetryableError(out)
                                         /\ out.error_type = DATABASE_CONNECTION],
                          out, t)

-----------------------------------------------------------------------------
(* SpecRetry: retry_async(config) around a function that may fail in any way *)

RetryMsgs == {<<"Connection", "refused">>, <<"boom">>}

RetryOutcomes ==
    {Ok} \cup {Error(c, m, UNKNOWN) :
                  c \in {RetryableErrorCls, NonRetryableErrorCls, ExceptionCls},
                  m \in RetryMsgs}

\* The policy of the wrapper: the manager's policy for an error type, as in
\* execute_with_resilience (336, 345), or a RetryConfig with max_attempts = n.
RetryPolicies ==
    {[of |-> "error_type", error_type |-> et, max_attempts |-> 0] : et \in ErrorType}
        \cup {[of |-> "max_attempts", error_type |-> UNKNOWN, max_attempts |-> n] :
                 n \in 0..MaxAttempts}

PolicyConfig(policy) ==
    IF policy.of = "error_type"
    THEN get_retry_config(policy.error_type)
    ELSE [DefaultRetryConfig EXCEPT !.max_attempts = policy.max_attempts]

RTInit ==
    /\ now = 1
    /\ \E policy \in RetryPolicies :
          rt = [policy |-> policy, config |-> DefaultRetryConfig, r |-> RetryIdle,
                invoked |-> 0, outcomes |-> << >>]

\* the wrapper is built from its policy and called
RTCall ==
    /\ rt.r.pc = "idle"
    /\ LET config == PolicyConfig(rt.policy)
           r == retry_enter(config)
       IN  rt' = [rt EXCEPT !.config = config, !.r = r,
                            !.invoked = IF r.pc = "running" THEN 1 ELSE 0]
    /\ UNCHANGED <<now, cbVars, mgrVars, restVars>>

\* func returns or raises
RTFinish ==
    /\ rt.r.pc = "running"
    /\ \E out \in RetryOutcomes :
          rt' = [rt EXCEPT !.r = retry_outcome(rt.config, rt.r, out),
                           !.outcomes = Append(@, out)]
    /\ UNCHANGED <<now, cbVars, mgrVars, restVars>>

\* the backoff sleep ends and func is called again
RTWake ==
    /\ rt.r.pc = "sleeping"
    /\ rt' = [rt EXCEPT !.r = retry_wake(rt.r), !.invoked = @ + 1]
    /\ UNCHANGED <<now, cbVars, mgrVars, restVars>>

RTTick == Tick /\ rt.r.pc = "sleeping" /\ UNCHANGED <<rt, cbVars, mgrVars, restVars>>

-----------------------------------------------------------------------------
(* Neo4jDatabase (database.py 41-269) *)

\* messages the neo4j driver fails with
DriverErrors ==
    {<<"Connection", "refused">>, <<"Query", "timed", "out">>, <<"Syntax", "error">>}

\* what the driver does during one gateway call: the step that fails and its message
DriverOk == [fails |-> "none", msg |-> << >>]

DriverBehaviours(func) ==
    LET steps == CASE func = "connect"       -> {"create", "run"}
                   [] func = "health_check"  -> {"run"}
                   [] func = "execute_query" -> {"session", "run"}
                   [] OTHER                  -> {}
        record == IF func \in {"connect", "health_check"}
                  THEN {[fails |-> "record", msg |-> << >>]}
                  ELSE {}
    IN  {DriverOk} \cup record \cup {[fails |-> st, msg |-> m] : st \in steps, m \in DriverErrors}

NoDriver == << >>
Neo4jDatabase == [driver |-> NoDriver, connected |-> FALSE]

NotConnected == Error(RetryableErrorCls, <<"Database", "not", "connected">>, DATABASE_CONNECTION)
UnexpectedResult == <<"Health", "check", "query", "returned", "unexpected", "result">>
HealthCheckFailed == <<"Health", "check", "failed", ":">>

\* connect that lets the driver's exception through as it is
connect_unwrapped(d, drv) ==
    LET d1 == [d EXCEPT !.driver = <<"Driver">>]
    IN  CASE drv.fails = "create" -> [db |-> d, out |-> Error(ExceptionCls, drv.msg, UNKNOWN)]
          [] drv.fails = "record" ->
                [db |-> d1, out |-> Error(QueryErrorCls, UnexpectedResult, UNKNOWN)]
          [] drv.fails \in {"session", "run"} ->
                [db |-> d1, out |-> Error(ExceptionCls, drv.msg, UNKNOWN)]
          [] OTHER -> [db |-> [d1 EXCEPT !.connected = TRUE], out |-> Ok]

\* connect (50-72) with _basic_health_check (82-97)
connect(d, drv) ==
    LET failed(m) == Error(RetryableErrorCls,
                           <<"Database", "connection", "failed", ":">> \o m,
                           DATABASE_CONNECTION)
        d1 == [d EXCEPT !.driver = <<"Driver">>]
    IN  CASE drv.fails = "create" -> [db |-> d, out |-> failed(drv.msg)]
          [] drv.fails = "record" ->
                [db |-> d1, out |-> failed(HealthCheckFailed \o UnexpectedResult)]
          [] drv.fails \in {"session", "run"} ->
                [db |-> d1, out |-> failed(HealthCheckFailed \o drv.msg)]
          [] OTHER -> [db |-> [d1 EXCEPT !.connected = TRUE], out |-> Ok]

\* disconnect that closes nothing and forgets nothing
disconnect_keeps_driver(d) == [d EXCEPT !.connected = FALSE]

\* disconnect that forgets the driver and still says it is connected
disconnect_keeps_connected(d) ==
    IF d.driver # NoDriver THEN [d EXCEPT !.driver = NoDriver] ELSE d

\* disconnect (74-80)
disconnect(d) ==
    IF d.driver # NoDriver THEN [d EXCEPT !.driver = NoDriver, !.connected = FALSE] ELSE d

\* health_check (99-133)
health_check(d, drv) ==
    LET raised(m) ==
            IF ContainsAny(LowerMsg(m), {<<"connection">>, <<"network">>, <<"timeout">>})
            THEN Error(RetryableErrorCls, HealthCheckFailed \o m, DATABASE_CONNECTION)
            ELSE Error(QueryErrorCls, HealthCheckFailed \o m, UNKNOWN)
    IN  [db |-> d,
         out |-> IF d.driver = NoDriver THEN NotConnected
                 ELSE CASE drv.fails = "record" -> raised(UnexpectedResult)
                        [] drv.fails \in {"session", "run"} -> raised(drv.msg)
                        [] OTHER -> Ok]

\* execute_query (135-233)
execute_query(d, drv) ==
    LET error_msg == LowerMsg(drv.msg)
    IN  [db |-> d,
         out |-> IF d.driver = NoDriver THEN NotConnected
                 ELSE CASE drv.fails = "session" ->
                             Error(RetryableErrorCls,
                                   <<"Database", "session", "failed", ":">> \o drv.msg,
                                   DATABASE_CONNECTION)
                        [] drv.fails = "run" ->
                             IF ContainsAny(error_msg, {<<"timeout">>, <<"timed", "out">>})
                             THEN Error(RetryableErrorCls,
                                        <<"Query", "timeout", ":">> \o drv.msg, QUERY_TIMEOUT)
                             ELSE IF ContainsAny(error_msg, {<<"connection">>, <<"network">>})
                             THEN Error(RetryableErrorCls,
                                        <<"Connection", "error", "during", "query", ":">>
                                            \o drv.msg,
                                        DATABASE_CONNECTION)
                             ELSE Error(QueryErrorCls,
                                        <<"Query", "execution", "failed", ":">> \o drv.msg,
                                        UNKNOWN)
                        [] OTHER -> Ok]

is_connected(d) == d.connected /\ d.driver # NoDriver

GatewayFuncs == {"connect", "health_check", "execute_query"}

gateway_body(func, d, drv) ==
    CASE func = "connect"       -> connect(d, drv)
      [] func = "health_check"  -> health_check(d, drv)
      [] func = "execute_query" -> execute_query(d, drv)

-----------------------------------------------------------------------------
(* Spec: the process-wide resilience_manager, the gateway and concurrent callers *)

Callers == {"a", "b"}

\* what an awaitable that is not a gateway method may do
GenericOutcomes ==
    {Ok,
     Error(RetryableErrorCls, <<"Connection", "refused">>, DATABASE_CONNECTION),
     Error(ExceptionCls, <<"boom">>, UNKNOWN)}

\* database_resilient (465-476), query_resilient (479-488), and
\* execute_with_resilience called with its default arguments
database_resilient(func) == <<func, DATABASE_CONNECTION, "database">>
query_resilient(func) == <<func, QUERY_TIMEOUT, "query_engine">>

\* Spec: any awaitable behind either decorator or the bare manager
GenericInvocations ==
    {database_resilient("generic"), query_resilient("generic"), <<"generic", UNKNOWN, "none">>}

\* SpecDB: the decorated methods of the gateway
GatewayInvocations == {database_resilient(f) : f \in GatewayFuncs}

World(c) ==
    [breakers |-> breakers, error_counts |-> error_counts, last_errors |-> last_errors,
     db |-> db, call |-> calls[c]]

Commit(c, W) ==
    /\ breakers' = W.breakers
    /\ error_counts' = W.error_counts
    /\ last_errors' = W.last_errors
    /\ db' = W.db
    /\ calls' = [calls EXCEPT ![c] = W.call]

\* One attempt up to its first suspension: a gateway method never suspends, so it
\* runs to its end; any other awaitable is left in flight.
run_attempt(W, t, drv) ==
    LET W1 == attempt_begin(W, t)
    IN  IF W1.call.inflight /\ W1.call.func \in GatewayFuncs
        THEN LET b == gateway_body(W1.call.func, W1.db, drv)
             IN  attempt_end([W1 EXCEPT !.db = b.db], b.out, t)
        ELSE W1

MgrInit ==
    /\ now = 1
    /\ breakers = circuit_breakers
    /\ error_counts = [et \in ErrorType |-> 0]
    /\ last_errors = [et \in ErrorType |-> None]
    /\ db = Neo4jDatabase
    /\ calls = [c \in Callers |-> CallIdle]
    /\ started = 0

\* a caller awaits execute_with_resilience(func, error_type, name)
Start(c, invocations, limit) ==
    /\ calls[c].r.pc \in {"idle", "returned", "raised"}
    /\ started < limit
    /\ started' = started + 1
    /\ \E inv \in invocations :
          LET W0 == [World(c) EXCEPT
                         !.call = NewCall(World(c), inv[1], inv[2], inv[3])]
          IN  IF W0.call.r.pc = "running"
              THEN \E drv \in DriverBehaviours(inv[1]) : Commit(c, run_attempt(W0, now, drv))
              ELSE Commit(c, W0)
    /\ UNCHANGED <<now, cbVars, rt, restVars>>

\* an awaitable in flight returns or raises
Finish(c) ==
    /\ calls[c].inflight
    /\ \E out \in GenericOutcomes : Commit(c, attempt_end(World(c), out, now))
    /\ UNCHANGED <<now, started, cbVars, rt, restVars>>

\* the backoff sleep of a call ends: the next attempt
Wake(c) ==
    /\ calls[c].r.pc = "sleeping"
    /\ LET W0 == [World(c) EXCEPT !.call.r = retry_wake(@)]
       IN  \E drv \in DriverBehaviours(calls[c].func) : Commit(c, run_attempt(W0, now, drv))
    /\ UNCHANGED <<now, started, cbVars, rt, restVars>>

\* the gateway is disconnected
Disconnect ==
    /\ db.driver # NoDriver
    /\ db' = disconnect(db)
    /\ UNCHANGED <<now, breakers, error_counts, last_errors, calls, started, cbVars, rt, restVars>>

MgrTick == Tick /\ UNCHANGED <<mgrVars, cbVars, rt, restVars>>

\* Spec: concurrent callers around awaitables that suspend
StartCall == \E c \in Callers : Start(c, GenericInvocations, MaxCalls)
FinishCall == \E c \in Callers : Finish(c)
WakeCall == \E c \in Callers : Wake(c)

\* SpecDB: one caller using the gateway's methods one after the other
GatewayCall == Start("a", GatewayInvocations, MaxDBCalls)
GatewayRetry == Wake("a")

-----------------------------------------------------------------------------
(* GracefulShutdown (resilience.py 425-457) *)

\* The callers of shutdown(): coroutines on the one event loop.
Shutters == {"s1", "s2"}

\* What a hook does once awaited: return, raise an Exception, await something
\* that never happens (it can be cancelled), or run without ever yielding to the
\* event loop (a blocking call, which asyncio cannot cancel).
HookKinds == {"completes", "raises", "hangs", "blocks"}

\* the timeout argument of shutdown(), in ticks of the clock
ShutdownTimeouts == {2, 6}

\* a shutdown() call: where it is, the index into shutdown_hooks of the hook it
\* awaits (reversed() walks the list from its last index down), the length of
\* the list when that hook was started and when the call was made, the
\* timeout argument, the time the hook has run, and the calls made so far
ShutdownIdle ==
    [pc |-> "idle", i |-> 0, n |-> 0, n0 |-> 0, timeout |-> 0, elapsed |-> 0, calls |-> 0]

GracefulShutdown == [shutdown_hooks |-> << >>, is_shutting_down |-> FALSE]

\* add_shutdown_hook (433-435)
add_shutdown_hook(hooks, hook) == Append(hooks, hook)

\* already_shutting_down that never holds
already_shutting_down_never(flag) == FALSE

\* the guard of shutdown (439-440)
already_shutting_down(flag) == flag

\* one iteration of `for hook in reversed(self.shutdown_hooks)` up to the
\* await of wait_for(hook(), timeout / len(self.shutdown_hooks)) (446-450);
\* the loop ends below index 1
start_hook(p, i, hooks, log) ==
    IF i >= 1
    THEN [p |-> [p EXCEPT !.pc = "running", !.i = i, !.n = Len(hooks), !.elapsed = 0],
          log |-> Append(log, [ev |-> "start", hook |-> i])]
    ELSE [p |-> [p EXCEPT !.pc = "done", !.i = 0, !.elapsed = 0], log |-> log]

\* hook_ended that ends the loop when a hook raised
hook_ended_stops_on_failure(p, hooks, log, how) ==
    IF how = "failed"
    THEN [p |-> [p EXCEPT !.pc = "done", !.i = 0, !.elapsed = 0],
          log |-> Append(log, [ev |-> how, hook |-> p.i])]
    ELSE start_hook(p, p.i - 1, hooks, Append(log, [ev |-> how, hook |-> p.i]))

\* wait_for returned or raised (451-455): the three branches only log, then
\* the loop goes on
hook_ended(p, hooks, log, how) ==
    start_hook(p, p.i - 1, hooks, Append(log, [ev |-> how, hook |-> p.i]))

\* the hook a call awaits
Awaited(s) == shutdown_hooks[sd[s].i]

\* the event loop is held by a hook that does not yield
Blocked == \E s \in Shutters : sd[s].pc = "running" /\ Awaited(s) = "blocks"

\* the slice timeout / len(self.shutdown_hooks) of the awaited hook is used up
SliceOver(p) == p.elapsed * p.n >= p.timeout

GSInit ==
    /\ now = 1
    /\ shutdown_hooks = GracefulShutdown.shutdown_hooks
    /\ is_shutting_down = GracefulShutdown.is_shutting_down
    /\ sd = [s \in Shutters |-> ShutdownIdle]
    /\ hook_log = << >>

AddHook ==
    /\ ~Blocked
    /\ Len(shutdown_hooks) < MaxHooks
    /\ \E hook \in HookKinds : shutdown_hooks' = add_shutdown_hook(shutdown_hooks, hook)
    /\ UNCHANGED <<now, is_shutting_down, sd, hook_log, cbVars, rt, mgrVars, fnVars, svcVars>>

\* shutdown(timeout) up to its first await (437-450)
CallShutdown ==
    /\ ~Blocked
    /\ \E s \in Shutters, timeout \in ShutdownTimeouts :
          /\ sd[s].pc \in {"idle", "done"}
          /\ sd[s].calls < MaxShutdownCalls
          /\ LET p == [ShutdownIdle EXCEPT !.timeout = timeout, !.calls = sd[s].calls + 1,
                                           !.n0 = Len(shutdown_hooks)]
             IN  IF already_shutting_down(is_shutting_down)
                 THEN /\ sd' = [sd EXCEPT ![s] = [p EXCEPT !.pc = "done", !.n0 = 0]]
                      /\ UNCHANGED <<is_shutting_down, hook_log>>
                 ELSE LET st == start_hook(p, Len(shutdown_hooks), shutdown_hooks, hook_log)
                      IN  /\ is_shutting_down' = TRUE
                          /\ sd' = [sd EXCEPT ![s] = st.p]
                          /\ hook_log' = st.log
    /\ UNCHANGED <<now, shutdown_hooks, cbVars, rt, mgrVars, fnVars, svcVars>>

\* the awaited hook ended as `how`
HookEnds(s, how) ==
    LET st == hook_ended(sd[s], shutdown_hooks, hook_log, how)
    IN  /\ sd' = [sd EXCEPT ![s] = st.p]
        /\ hook_log' = st.log
        /\ UNCHANGED <<now, shutdown_hooks, is_shutting_down, cbVars, rt, mgrVars, fnVars, svcVars>>

\* the hook returns within its slice; one that never yields returns when it likes
HookReturns ==
    \E s \in Shutters :
        /\ sd[s].pc = "running"
        /\ \/ Awaited(s) = "completes" /\ ~SliceOver(sd[s])
           \/ Awaited(s) = "blocks"
        /\ HookEnds(s, "completed")

\* the hook raises within its slice
HookRaises ==
    \E s \in Shutters :
        /\ sd[s].pc = "running"
        /\ Awaited(s) = "raises"
        /\ ~SliceOver(sd[s])
        /\ HookEnds(s, "failed")

\* wait_for cancels a hook that is suspended at an await when its slice is over;
\* a hook that never yields is seen to be late only once it has returned
HookTimesOut ==
    \E s \in Shutters :
        /\ sd[s].pc = "running"
        /\ SliceOver(sd[s])
        /\ HookEnds(s, "timed_out")

\* time passes while a hook runs; the call's elapsed field is its clock
ShutdownTick ==
    /\ \E s \in Shutters :
          /\ sd[s].pc = "running"
          /\ IF Awaited(s) = "blocks" THEN sd[s].elapsed < MaxBlock ELSE ~SliceOver(sd[s])
          /\ sd' = [sd EXCEPT ![s].elapsed = @ + 1]
    /\ UNCHANGED <<now, shutdown_hooks, is_shutting_down, hook_log, cbVars, rt, mgrVars, fnVars, svcVars>>

-----------------------------------------------------------------------------
(* QueryBuilder and the search templates (queries.py 13-153). A query text   *)
(* is a tuple of tokens; a parameter map is a function from parameter names  *)
(* to values. The conditions given to build_where_conditions are a tuple of  *)
(* [field, suffix, value] in the iteration order of the dict: the key is     *)
(* field followed by suffix, the value is None, <<"">> or <<v>>.             *)

EmptyMap == [k \in {} |-> 0]

Condition(field, suffix, value) == [field |-> field, suffix |-> suffix, value |-> value]

\* " AND ".join(where_parts)
RECURSIVE join_and(_)
join_and(where_parts) ==
    IF where_parts = << >> THEN << >>
    ELSE IF Len(where_parts) = 1 THEN where_parts[1]
    ELSE where_parts[1] \o <<"AND">> \o join_and(Tail(where_parts))

\* the predicate of one condition, bound to $param_name (queries.py 35-55)
where_part(node_var, c, param_name) ==
    CASE c.suffix = "_contains" ->
            <<"toLower(" \o node_var \o "." \o c.field \o ")", "CONTAINS",
              "toLower(", "$" \o param_name, ")">>
      [] c.suffix = "_from" ->
            <<node_var \o "." \o c.field, ">=", "date(", "$" \o param_name, ")">>
      [] c.suffix = "_to" ->
            <<node_var \o "." \o c.field, "<=", "date(", "$" \o param_name, ")">>
      [] OTHER ->
            <<node_var \o "." \o c.field \o c.suffix, "=", "$" \o param_name>>

\* the loop of build_where_conditions that numbers every condition, the
\* skipped ones too
RECURSIVE where_loop_counts_all(_, _, _, _, _)
where_loop_counts_all(node_var, conditions, where_parts, parameters, param_counter) ==
    IF conditions = << >>
    THEN [where_parts |-> where_parts, parameters |-> parameters]
    ELSE LET c == Head(conditions)
             param_name == "param_" \o ToString(param_counter)
         IN  IF c.value = None \/ c.value = <<"">>
             THEN where_loop_counts_all(node_var, Tail(conditions), where_parts,
                                        parameters, param_counter + 1)
             ELSE where_loop_counts_all(node_var, Tail(conditions),
                             Append(where_parts, where_part(node_var, c, param_name)),
                             (param_name :> c.value[1]) @@ parameters,
                             param_counter + 1)

\* the loop of build_where_conditions (queries.py 28-57): a condition whose
\* value is None or "" is skipped, the others take the next parameter name
RECURSIVE where_loop(_, _, _, _, _)
where_loop(node_var, conditions, where_parts, parameters, param_counter) ==
    IF conditions = << >>
    THEN [where_parts |-> where_parts, parameters |-> parameters]
    ELSE LET c == Head(conditions)
             param_name == "param_" \o ToString(param_counter)
         IN  IF c.value = None \/ c.value = <<"">>
             THEN where_loop(node_var, Tail(conditions), where_parts, parameters,
                             param_counter)
             ELSE where_loop(node_var, Tail(conditions),
                             Append(where_parts, where_part(node_var, c, param_name)),
                             (param_name :> c.value[1]) @@ parameters,
                             param_counter + 1)

\* QueryBuilder.build_where_conditions (queries.py 16-61): the where clause
\* and the parameter map
build_where_conditions(node_var, conditions) ==
    LET out == where_loop(node_var, conditions, << >>, EmptyMap, 0)
    IN  [where_clause |-> IF out.where_parts = << >> THEN << >>
                          ELSE <<"WHERE">> \o join_and(out.where_parts),
         parameters |-> out.parameters]

\* `if name:` of the templates: None and "" add no condition
Given(value) == value # None /\ value # <<"">>

\* OffshoreLeaksQueries.search_entities (queries.py 68-115) with the name
\* filter; the other filters are left out
search_entities(name, limit, offset) ==
    LET conditions == IF Given(name) THEN <<Condition("name", "_contains", name)>>
                      ELSE << >>
        w == build_where_conditions("e", conditions)
    IN  [text |-> <<"MATCH", "(e:Entity)">> \o w.where_clause
                      \o <<"RETURN", "e", "ORDER", "BY", "e.name",
                           "SKIP", "$offset", "LIMIT", "$limit">>,
         parameters |-> ("offset" :> offset) @@ ("limit" :> limit) @@ w.parameters]

\* OffshoreLeaksQueries.search_officers (queries.py 118-153)
search_officers(name, limit, offset) ==
    LET conditions == IF Given(name) THEN <<Condition("name", "_contains", name)>>
                      ELSE << >>
        w == build_where_conditions("o", conditions)
    IN  [text |-> <<"MATCH", "(o:Officer)">> \o w.where_clause
                      \o <<"RETURN", "o", "ORDER", "BY", "o.name",
                           "SKIP", "$offset", "LIMIT", "$limit">>,
         parameters |-> ("offset" :> offset) @@ ("limit" :> limit) @@ w.parameters]

\* str.replace(old, new) on a text: every occurrence, left to right
RECURSIVE replace(_, _, _)
replace(text, old, new) ==
    IF Len(text) < Len(old) THEN text
    ELSE IF SubSeq(text, 1, Len(old)) = old
         THEN new \o replace(SubSeq(text, Len(old) + 1, Len(text)), old, new)
         ELSE <<Head(text)>> \o replace(Tail(text), old, new)

\* str.split(sep)[0]: the text before the first occurrence of sep
RECURSIVE split0(_, _)
split0(text, sep) ==
    IF Len(text) < Len(sep) THEN text
    ELSE IF SubSeq(text, 1, Len(sep)) = sep THEN << >>
         ELSE <<Head(text)>> \o split0(Tail(text), sep)

-----------------------------------------------------------------------------
(* OffshoreLeaksService (service.py 21-513) with the parameter models        *)
(* (models.py 115-195) and the query templates (queries.py 64-592)           *)

SearchOps == {"search_entities", "search_officers"}
AnalysisOps ==
    {"find_shortest_paths", "analyze_network_patterns", "find_common_connections",
     "temporal_analysis", "compliance_risk_analysis"}
ServiceOps == SearchOps \cup {"get_connections"} \cup AnalysisOps

\* the argument values tried: around the limits of the parameter models for
\* the operations that have one, in and out of range for the others
Limits == {0, 1, 100, 101, 200, 201}
Offsets == {-1, 0}
Depths == {0, 1, 5, 6}
AnalysisLimits == {0, 10}
AnalysisDepths == {0, 3}

\* A request: the operation and the arguments that matter here. An argument an
\* operation does not take is left at a fixed value.
Request(op, limit, offset, max_depth, has_start, node_ids, name) ==
    [op |-> op, limit |-> limit, offset |-> offset, max_depth |-> max_depth,
     has_start |-> has_start, node_ids |-> node_ids, name |-> name]

\* the name filter of a search: absent, empty or given
Names == {None, <<"">>, <<"acme">>}

Requests ==
    {Request(op, l, f, 2, TRUE, 2, n) :
        op \in SearchOps, l \in Limits, f \in Offsets, n \in Names}
        \cup {Request("get_connections", l, 0, d, h, 2, None) :
                 l \in Limits, d \in Depths, h \in BOOLEAN}
        \cup {Request(op, l, 0, d, TRUE, 2, None) :
                 op \in {"find_shortest_paths", "analyze_network_patterns",
                         "compliance_risk_analysis"},
                 l \in AnalysisLimits, d \in AnalysisDepths}
        \cup {Request("temporal_analysis", l, 0, 3, TRUE, 2, None) :
                 l \in AnalysisLimits}
        \cup {Request("find_common_connections", l, 0, d, TRUE, n, None) :
                 l \in AnalysisLimits, d \in AnalysisDepths, n \in {0, 1, 2}}

\* SearchParameters that lets limit 0 through
SearchParameters_ge0(req) ==
    /\ req.limit >= 0 /\ req.limit <= 100
    /\ req.offset >= 0

\* SearchParameters: limit ge=1 le=100, offset ge=0 (models.py 115-123)
SearchParameters(req) ==
    /\ req.limit >= 1 /\ req.limit <= 100
    /\ req.offset >= 0

\* ConnectionsParameters: start_node_id required, max_depth ge=1 le=5,
\* limit ge=1 le=200 (models.py 170-195)
ConnectionsParameters(req) ==
    /\ req.has_start
    /\ req.max_depth >= 1 /\ req.max_depth <= 5
    /\ req.limit >= 1 /\ req.limit <= 200

ValueErrorCls == "ValueError"
InvalidParameters == <<"Invalid", "parameters", ":">>
TooFewNodeIds ==
    <<"At", "least", "2", "node", "IDs", "required", "for", "common", "connections">>

\* the template of find_common_connections without its check
find_common_connections_unchecked(req) == Ok

\* OffshoreLeaksQueries.find_common_connections, its first statement
\* (queries.py 460-461): what it raises before it builds anything, or Ok
find_common_connections(req) ==
    IF req.node_ids < 2 THEN Error(ValueErrorCls, TooFewNodeIds, UNKNOWN) ELSE Ok

\* What happens before the first database call of an operation: the
\* construction of the parameter model where the operation has one
\* (service.py 33, 103, 161 with the except branches 89-91, 147-149, 198-200)
\* and the check of the query template of find_common_connections, whose
\* ValueError the service lets through (service.py 363-368, 403-405).
\* The result is the error raised, or Ok.
validate(req) ==
    CASE req.op \in SearchOps ->
            IF SearchParameters(req) THEN Ok
            ELSE Error(ValueErrorCls, InvalidParameters \o <<"limit/offset">>, UNKNOWN)
      [] req.op = "get_connections" ->
            IF ConnectionsParameters(req) THEN Ok
            ELSE Error(ValueErrorCls, InvalidParameters \o <<"connections">>, UNKNOWN)
      [] req.op = "find_common_connections" -> find_common_connections(req)
      [] OTHER -> Ok

\* the parameters of the query an operation sends first: those of the template
\* it uses; an absent parameter is the empty tuple
\* For a search the text and the parameter map are those of its template; the
\* text of the traversal templates is not modelled and is left empty.
first_query(req) ==
    LET t == CASE req.op = "search_entities" ->
                     search_entities(req.name, req.limit, req.offset)
               [] req.op = "search_officers" ->
                     search_officers(req.name, req.limit, req.offset)
               [] OTHER -> [text |-> << >>, parameters |-> EmptyMap]
    IN  [op |-> req.op,
         kind |-> IF req.op \in SearchOps THEN "page" ELSE "single",
         limit |-> <<req.limit>>,
         offset |-> IF req.op \in SearchOps THEN <<req.offset>> ELSE << >>,
         max_depth |-> IF req.op \in SearchOps \cup {"temporal_analysis"}
                       THEN << >> ELSE <<req.max_depth>>,
         text |-> t.text,
         parameters |-> t.parameters]

\* the count query that keeps the parameter map of the page query
count_query_keeps_paging(q) ==
    LET v == IF q.op = "search_entities" THEN "e" ELSE "o"
        counted == replace(q.text, <<"RETURN", v>>,
                           <<"RETURN", "count(" \o v \o ")", "as", "total">>)
    IN  [q EXCEPT !.kind = "count",
                  !.text = split0(split0(split0(counted, <<"ORDER", "BY">>),
                                         <<"SKIP">>), <<"LIMIT">>)]

\* the count query of a search (service.py 62-72, 120-130): the text of the
\* page query with the projection replaced by a count and cut before ORDER BY,
\* SKIP and LIMIT; the parameter map without limit and offset
count_query(q) ==
    LET v == IF q.op = "search_entities" THEN "e" ELSE "o"
        counted == replace(q.text, <<"RETURN", v>>,
                           <<"RETURN", "count(" \o v \o ")", "as", "total">>)
    IN  [q EXCEPT !.kind = "count", !.limit = << >>, !.offset = << >>,
                  !.text = split0(split0(split0(counted, <<"ORDER", "BY">>),
                                         <<"SKIP">>), <<"LIMIT">>),
                  !.parameters = [k \in DOMAIN q.parameters \ {"limit", "offset"}
                                     |-> q.parameters[k]]]

\* the record lists the database may answer a query with: at most as many
\* records as the LIMIT parameter of the query allows
Records(q) ==
    LET cap == IF q.limit = << >> \/ q.limit[1] > MaxRows THEN MaxRows
               ELSE IF q.limit[1] < 0 THEN 0 ELSE q.limit[1]
    IN  {[i \in 1..n |-> i] : n \in 0..cap}

\* SearchResult whose total_count is always that of a count query
SearchResult_counts_total(req, records, total) ==
    [total_count |-> total,
     returned_count |-> Len(records),
     offset |-> IF req.op \in SearchOps THEN req.offset ELSE 0,
     limit |-> req.limit,
     results |-> records]

\* SearchResult whose returned_count is the total
SearchResult_returns_total(req, records, total) ==
    [total_count |-> IF req.op \in SearchOps THEN total ELSE Len(records),
     returned_count |-> IF req.op \in SearchOps THEN total ELSE Len(records),
     offset |-> IF req.op \in SearchOps THEN req.offset ELSE 0,
     limit |-> req.limit,
     results |-> records]

\* SearchResult of an operation that got `records` from its query and, for a
\* search, `total` from its count query (service.py 77-87, 186-196; models.py
\* 198-208); the results are the records, one result per record
SearchResult(req, records, total) ==
    [total_count |-> IF req.op \in SearchOps THEN total ELSE Len(records),
     returned_count |-> Len(records),
     offset |-> IF req.op \in SearchOps THEN req.offset ELSE 0,
     limit |-> req.limit,
     results |-> records]

NoResult ==
    [total_count |-> 0, returned_count |-> 0, offset |-> 0, limit |-> 0,
     results |-> << >>]

\* the operation under way: its request, where it is, the queries it has sent,
\* the rows of the page query, what it returned or raised, and the
\* operations called so far
ServiceIdle ==
    [req |-> Request("search_entities", 1, 0, 2, TRUE, 2, None), pc |-> "idle",
     queries |-> << >>, rows |-> << >>, result |-> NoResult, error |-> Ok,
     count |-> 0]

\* self.database.execute_query(...): the decorated gateway method, up to the
\* end of its first attempt
start_query(W, t, drv) ==
    LET inv == database_resilient("execute_query")
    IN  run_attempt([W EXCEPT !.call = NewCall(W, inv[1], inv[2], inv[3])], t, drv)

\* what the driver does to a query of the service: it runs, times out or is
\* refused as malformed
QueryBehaviours ==
    {DriverOk} \cup {[fails |-> "run", msg |-> m] :
                        m \in {<<"Query", "timed", "out">>, <<"Syntax", "error">>}}

\* the gateway as the server leaves it after start(): connected
Connected == [driver |-> <<"Driver">>, connected |-> TRUE]

SvcInit ==
    /\ now = 1
    /\ breakers = circuit_breakers
    /\ error_counts = [et \in ErrorType |-> 0]
    /\ last_errors = [et \in ErrorType |-> None]
    /\ db \in {Neo4jDatabase, Connected}
    /\ calls = [c \in Callers |-> CallIdle]
    /\ started = 0
    /\ svc = ServiceIdle

\* an operation of the service is called: up to its first await or its raise
ServiceCall ==
    /\ svc.pc \in {"idle", "returned", "raised"}
    /\ svc.count < MaxServiceCalls
    /\ \E req \in Requests :
          LET s0 == [ServiceIdle EXCEPT !.req = req, !.count = svc.count + 1]
              v == validate(req)
          IN  IF v # Ok
              THEN /\ svc' = [s0 EXCEPT !.pc = "raised", !.error = v]
                   /\ UNCHANGED mgrVars
              ELSE /\ svc' = [s0 EXCEPT !.pc = "awaiting",
                                        !.queries = <<first_query(req)>>]
                   /\ started' = started + 1
                   /\ \E drv \in QueryBehaviours :
                         Commit("a", start_query(World("a"), now, drv))
    /\ UNCHANGED <<now, gw, srv, api, cbVars, rt, gsVars, fnVars>>

\* the backoff sleep of the query under way ends: its next attempt
ServiceRetry ==
    /\ svc.pc = "awaiting"
    /\ calls["a"].r.pc = "sleeping"
    /\ LET W0 == [World("a") EXCEPT !.call.r = retry_wake(@)]
       IN  \E drv \in QueryBehaviours : Commit("a", run_attempt(W0, now, drv))
    /\ UNCHANGED <<now, started, svc, gw, srv, api, cbVars, rt, gsVars, fnVars>>

\* execute_query raised: every operation lets the error through
ServiceRaises ==
    /\ svc.pc = "awaiting"
    /\ calls["a"].r.pc = "raised"
    /\ svc' = [svc EXCEPT !.pc = "raised", !.error = calls["a"].r.result]
    /\ UNCHANGED <<now, mgrVars, gw, srv, api, cbVars, rt, gsVars, fnVars>>

\* the page query of a search returned: the count query is sent
ServiceCounts ==
    /\ svc.pc = "awaiting"
    /\ calls["a"].r.pc = "returned"
    /\ svc.req.op \in SearchOps
    /\ Len(svc.queries) = 1
    /\ \E rows \in Records(svc.queries[1]) :
          svc' = [svc EXCEPT !.rows = rows,
                             !.queries = Append(@, count_query(svc.queries[1]))]
    /\ started' = started + 1
    /\ \E drv \in QueryBehaviours :
          Commit("a", start_query(World("a"), now, drv))
    /\ UNCHANGED <<now, gw, srv, api, cbVars, rt, gsVars, fnVars>>

\* the last query of the operation returned: the rows are shaped and wrapped
ServiceReturns ==
    /\ svc.pc = "awaiting"
    /\ calls["a"].r.pc = "returned"
    /\ svc.req.op \in SearchOps => Len(svc.queries) = 2
    /\ \E n \in 0..MaxRows, recs \in Records(svc.queries[1]) :
          \* of a search the answer is the total of the count query, of the
          \* other operations the records
          /\ svc.req.op \in SearchOps => recs = svc.rows
          /\ svc.req.op \notin SearchOps => n = 0
          /\ svc' = [svc EXCEPT !.pc = "returned", !.rows = recs,
                                !.result = SearchResult(svc.req, recs, n)]
    /\ UNCHANGED <<now, mgrVars, gw, srv, api, cbVars, rt, gsVars, fnVars>>

-----------------------------------------------------------------------------
(* SpecGateway: the bodies of the gateway's methods (database.py 50-233) run   *)
(* one after the other, as each attempt admitted by the manager runs them,    *)
(* with the calls the driver sees: close() and session()                      *)

\* what the driver does in SpecGateway and SpecServer
ServerBehaviours ==
    {DriverOk,
     [fails |-> "create", msg |-> <<"Connection", "refused">>],
     [fails |-> "run", msg |-> <<"Connection", "refused">>]}

\* the calls a method makes on the driver module and on a driver: connect
\* creates a driver (54-60) and opens a session on it (62, 88), disconnect
\* closes the driver it holds (76-77), health_check and execute_query open a
\* session on the driver they hold (107, 161)
driver_calls(func, d, drv) ==
    CASE func = "connect" ->
            [create |-> IF drv.fails = "create" THEN 0 ELSE 1,
             close |-> 0,
             session |-> IF drv.fails = "create" THEN 0 ELSE 1]
      [] func = "disconnect" ->
            [create |-> 0, close |-> IF d.driver # NoDriver THEN 1 ELSE 0, session |-> 0]
      [] OTHER ->
            [create |-> 0, close |-> 0, session |-> IF d.driver # NoDriver THEN 1 ELSE 0]

\* read: what the last read of is_connected returned, none yet
GatewayIdle ==
    [db |-> Neo4jDatabase, creates |-> 0, closes |-> 0, sessions |-> 0,
     read |-> << >>, log |-> << >>]

GwInit ==
    /\ now = 1
    /\ gw = GatewayIdle

\* a method of the gateway runs from its first to its last statement
gateway_call(g, func, drv) ==
    LET b == IF func = "disconnect"
             THEN [db |-> disconnect(g.db), out |-> Ok]
             ELSE gateway_body(func, g.db, drv)
        u == driver_calls(func, g.db, drv)
    IN  [db |-> b.db,
         creates |-> g.creates + u.create,
         closes |-> g.closes + u.close,
         sessions |-> g.sessions + u.session,
         read |-> g.read,
         log |-> Append(g.log, [op |-> func, out |-> b.out])]

GwConnect ==
    /\ Len(gw.log) < MaxGatewayOps
    /\ \E drv \in ServerBehaviours : gw' = gateway_call(gw, "connect", drv)
    /\ UNCHANGED <<now, svc, srv, api, cbVars, rt, mgrVars, gsVars, fnVars>>

GwDisconnect ==
    /\ Len(gw.log) < MaxGatewayOps
    /\ gw' = gateway_call(gw, "disconnect", DriverOk)
    /\ UNCHANGED <<now, svc, srv, api, cbVars, rt, mgrVars, gsVars, fnVars>>

GwHealthCheck ==
    /\ Len(gw.log) < MaxGatewayOps
    /\ \E drv \in ServerBehaviours : gw' = gateway_call(gw, "health_check", drv)
    /\ UNCHANGED <<now, svc, srv, api, cbVars, rt, mgrVars, gsVars, fnVars>>

GwExecuteQuery ==
    /\ Len(gw.log) < MaxGatewayOps
    /\ \E drv \in ServerBehaviours : gw' = gateway_call(gw, "execute_query", drv)
    /\ UNCHANGED <<now, svc, srv, api, cbVars, rt, mgrVars, gsVars, fnVars>>

\* the property is_connected is read (database.py 266-269)
GwIsConnected ==
    /\ Len(gw.log) < MaxGatewayOps
    /\ gw' = [gw EXCEPT !.read = <<is_connected(gw.db)>>,
                        !.log = Append(gw.log, [op |-> "is_connected", out |-> Ok])]
    /\ UNCHANGED <<now, svc, srv, api, cbVars, rt, mgrVars, gsVars, fnVars>>

-----------------------------------------------------------------------------
(* SpecServer: OffshoreLeaksServer (server.py 20-151): start, stop and         *)
(* health_check called one after the other on one server                      *)

\* the hooks __init__ registers, in the order it registers them (35-36)
ServerHooks ==
    add_shutdown_hook(add_shutdown_hook(GracefulShutdown.shutdown_hooks,
                                        "_shutdown_database"),
                      "_cleanup_resources")

\* what a hook of the server does to the gateway: _shutdown_database awaits
\* database.disconnect() (59-65), _cleanup_resources logs (67-74)
run_hook(hook, d) == IF hook = "_shutdown_database" THEN disconnect(d) ELSE d

\* shutdown() of the server's handler from its guard to its end (resilience.py
\* 437-457): neither hook suspends or raises, so each wait_for returns before
\* its slice is over. The result is the flag, the log, the gateway and the
\* number of database.disconnect() calls made.
RECURSIVE run_hooks(_, _, _, _)
run_hooks(st, hooks, d, n) ==
    IF st.p.pc # "running"
    THEN [log |-> st.log, db |-> d, disconnects |-> n]
    ELSE run_hooks(hook_ended(st.p, hooks, st.log, "completed"), hooks,
                   run_hook(hooks[st.p.i], d),
                   IF hooks[st.p.i] = "_shutdown_database" THEN n + 1 ELSE n)

shutdown(flag, hooks, log, d) ==
    IF already_shutting_down(flag)
    THEN [is_shutting_down |-> flag, log |-> log, db |-> d, disconnects |-> 0]
    ELSE LET p == [ShutdownIdle EXCEPT !.timeout = 30, !.n0 = Len(hooks)]
             done == run_hooks(start_hook(p, Len(hooks), hooks, log), hooks, d, 0)
         IN  [is_shutting_down |-> TRUE, log |-> done.log, db |-> done.db,
              disconnects |-> done.disconnects]

NotConnectedDetails == <<"Database", "not", "connected">>

HealthStatus(status, database_connected, server_running, details) ==
    [status |-> status, database_connected |-> database_connected,
     server_running |-> server_running, details |-> details]

NoHealth == HealthStatus("none", FALSE, FALSE, << >>)

\* the end of health_check that lets the gateway's exception through
health_status_reraises(running, out) ==
    IF out = Ok
    THEN [raised |-> FALSE, health |-> HealthStatus("healthy", TRUE, running, <<"healthy">>)]
    ELSE [raised |-> TRUE, health |-> NoHealth]

\* the end of health_check once database.health_check() has returned or
\* raised `out` (server.py 124-151): details are the gateway's answer or the
\* text of the exception
health_status(running, out) ==
    IF out = Ok
    THEN [raised |-> FALSE, health |-> HealthStatus("healthy", TRUE, running, <<"healthy">>)]
    ELSE [raised |-> FALSE, health |-> HealthStatus("unhealthy", FALSE, running, out.msg)]

\* the server after __init__ with the calls made on it: for each the method,
\* whether it raised, whether it ran database.disconnect(), whether it called
\* a method of the gateway through the manager, and what health_check returned
ServerIdle == [running |-> FALSE, pc |-> "idle", log |-> << >>]

Entry(method, raised, disconnected, gateway, health) ==
    [method |-> method, raised |-> raised, disconnected |-> disconnected,
     gateway |-> gateway, health |-> health]

SrvInit ==
    /\ now = 1
    /\ breakers = circuit_breakers
    /\ error_counts = [et \in ErrorType |-> 0]
    /\ last_errors = [et \in ErrorType |-> None]
    /\ db = Neo4jDatabase
    /\ calls = [c \in Callers |-> CallIdle]
    /\ started = 0
    /\ shutdown_hooks = ServerHooks
    /\ is_shutting_down = GracefulShutdown.is_shutting_down
    /\ sd = [s \in Shutters |-> ShutdownIdle]
    /\ hook_log = << >>
    /\ srv = ServerIdle

\* a method of the gateway is awaited: the decorated method up to the end of
\* its first attempt
start_gateway(func, W, t, drv) ==
    LET inv == database_resilient(func)
    IN  run_attempt([W EXCEPT !.call = NewCall(W, inv[1], inv[2], inv[3])], t, drv)

\* start() up to the end of the first attempt of database.connect() (38-41)
ServerStart ==
    /\ srv.pc = "idle"
    /\ Len(srv.log) < MaxServerCalls
    /\ srv' = [srv EXCEPT !.pc = "start"]
    /\ started' = started + 1
    /\ \E drv \in ServerBehaviours :
          Commit("a", start_gateway("connect", World("a"), now, drv))
    /\ UNCHANGED <<now, svc, gw, api, cbVars, rt, gsVars, fnVars>>

\* the backoff sleep of the gateway call under way ends: its next attempt
ServerRetry ==
    /\ srv.pc \in {"start", "health_check"}
    /\ calls["a"].r.pc = "sleeping"
    /\ LET W0 == [World("a") EXCEPT !.call.r = retry_wake(@)]
       IN  \E drv \in ServerBehaviours : Commit("a", run_attempt(W0, now, drv))
    /\ UNCHANGED <<now, started, svc, gw, srv, api, cbVars, rt, gsVars, fnVars>>

\* database.connect() returned or raised: start() sets _running or re-raises
\* (41-48)
ServerStarted ==
    /\ srv.pc = "start"
    /\ calls["a"].r.pc \in {"returned", "raised"}
    /\ LET ok == calls["a"].r.pc = "returned"
       IN  srv' = [srv EXCEPT !.pc = "idle",
                              !.running = IF ok THEN TRUE ELSE @,
                              !.log = Append(@, Entry("start", ~ok, FALSE, TRUE, NoHealth))]
    /\ UNCHANGED <<now, mgrVars, svc, gw, api, cbVars, rt, gsVars, fnVars>>

\* stop() (50-57): shutdown_handler.shutdown(), then _running = False
ServerStop ==
    /\ srv.pc = "idle"
    /\ Len(srv.log) < MaxServerCalls
    /\ LET done == shutdown(is_shutting_down, shutdown_hooks, hook_log, db)
       IN  /\ is_shutting_down' = done.is_shutting_down
           /\ hook_log' = done.log
           /\ db' = done.db
           /\ srv' = [srv EXCEPT !.running = FALSE,
                                 !.log = Append(@, Entry("stop", FALSE, done.disconnects > 0,
                                                         FALSE, NoHealth))]
    /\ UNCHANGED <<now, breakers, error_counts, last_errors, calls, started,
                   shutdown_hooks, sd, svc, gw, api, cbVars, rt, fnVars>>

\* health_check() up to the end of the first attempt of database.health_check(),
\* or to its return when the gateway is not connected (119-141)
ServerHealthCheck ==
    /\ srv.pc = "idle"
    /\ Len(srv.log) < MaxServerCalls
    /\ IF is_connected(db)
       THEN /\ srv' = [srv EXCEPT !.pc = "health_check"]
            /\ started' = started + 1
            /\ \E drv \in ServerBehaviours :
                  Commit("a", start_gateway("health_check", World("a"), now, drv))
       ELSE /\ srv' = [srv EXCEPT
                          !.log = Append(@, Entry("health_check", FALSE, FALSE, FALSE,
                                                  HealthStatus("unhealthy", FALSE, srv.running,
                                                               NotConnectedDetails)))]
            /\ UNCHANGED mgrVars
    /\ UNCHANGED <<now, svc, gw, api, cbVars, rt, gsVars, fnVars>>

\* database.health_check() returned or raised: health_check() returns (130-151)
ServerHealthDone ==
    /\ srv.pc = "health_check"
    /\ calls["a"].r.pc \in {"returned", "raised"}
    /\ LET h == health_status(srv.running, calls["a"].r.result)
       IN  srv' = [srv EXCEPT !.pc = "idle",
                              !.log = Append(@, Entry("health_check", h.raised, FALSE, TRUE,
                                                      h.health))]
    /\ UNCHANGED <<now, mgrVars, svc, gw, api, cbVars, rt, gsVars, fnVars>>

-----------------------------------------------------------------------------
(* SpecClassifier: ErrorClassifier applied to one error (resilience.py 209-262) *)

ClassifierMsgs == {<<"Connection", "refused">>, <<"Query", "timed", "out">>, <<"boom">>}

\* the errors handed to the classifier: of the two marker classes or of any
\* other class, carrying either of two error_type attributes
ClassifierErrors ==
    {Error(c, m, et) :
        c \in {RetryableErrorCls, NonRetryableErrorCls, ExceptionCls, QueryErrorCls},
        m \in ClassifierMsgs,
        et \in {UNKNOWN, QUERY_TIMEOUT}}

ECIdle ==
    ec = [error |-> Error(ExceptionCls, <<"boom">>, UNKNOWN), error_type |-> UNKNOWN,
          op |-> "none", retryable |-> FALSE, classified |-> UNKNOWN]

ECInit ==
    /\ now = 1
    /\ \E e \in ClassifierErrors, et \in ErrorType :
          ec = [error |-> e, error_type |-> et, op |-> "none",
                retryable |-> FALSE, classified |-> UNKNOWN]

\* ErrorClassifier.is_retryable(error, error_type)
IsRetryable ==
    /\ ec.op # "is_retryable"
    /\ ec' = [ec EXCEPT !.op = "is_retryable",
                        !.retryable = is_retryable(ec.error, ec.error_type)]
    /\ UNCHANGED <<now, dl, qb, cbVars, rt, mgrVars, gsVars, svcVars>>

\* ErrorClassifier.classify_database_error(error)
ClassifyDatabaseError ==
    /\ ec.op # "classify_database_error"
    /\ ec' = [ec EXCEPT !.op = "classify_database_error",
                        !.classified = classify_database_error(ec.error)]
    /\ UNCHANGED <<now, dl, qb, cbVars, rt, mgrVars, gsVars, svcVars>>

-----------------------------------------------------------------------------
(* SpecDelay: calculate_delay (resilience.py 113-131). Delays are exact        *)
(* fractions [num, den] of tenths of a second, kept in lowest terms.          *)

RECURSIVE Pow(_, _)
Pow(b, n) == IF n = 0 THEN 1 ELSE b * Pow(b, n - 1)

RECURSIVE GCD(_, _)
GCD(a, b) == IF b = 0 THEN a ELSE GCD(b, a % b)

Frac(num, den) ==
    LET g == GCD(num, den)
    IN  IF g = 0 THEN [num |-> 0, den |-> 1] ELSE [num |-> num \div g, den |-> den \div g]

FracLeq(a, b) == a.num * b.den <= b.num * a.den

\* min(delay, config.max_delay)
FracMin(a, b) == IF FracLeq(a, b) THEN a ELSE b

\* calculate_delay that does not apply the max_delay limit
calculate_delay_unclamped(attempt, config, rnd) ==
    LET delay == IF config.backoff_strategy = "exponential"
                 THEN Frac(config.base_delay * Pow(config.exponential_base, attempt - 1),
                           Pow(10, attempt - 1))
                 ELSE IF config.backoff_strategy = "linear"
                 THEN Frac(config.base_delay * attempt, 1)
                 ELSE Frac(config.base_delay, 1)
    IN  IF config.jitter
        THEN Frac(delay.num * (RandomSteps + rnd), delay.den * 2 * RandomSteps)
        ELSE delay

\* calculate_delay(attempt, config), random.random() returning rnd / RandomSteps;
\* exponential_base is in tenths, so base ** (attempt - 1) is
\* exponential_base^(attempt-1) / 10^(attempt-1)
calculate_delay(attempt, config, rnd) ==
    LET delay == IF config.backoff_strategy = "exponential"
                 THEN Frac(config.base_delay * Pow(config.exponential_base, attempt - 1),
                           Pow(10, attempt - 1))
                 ELSE IF config.backoff_strategy = "linear"
                 THEN Frac(config.base_delay * attempt, 1)
                 ELSE Frac(config.base_delay, 1)
        limited == FracMin(delay, Frac(config.max_delay, 1))
    IN  IF config.jitter
        THEN Frac(limited.num * (RandomSteps + rnd), limited.den * 2 * RandomSteps)
        ELSE limited

\* the strategies: the two the function names and one it does not
BackoffStrategies == {"exponential", "linear", "fixed"}

\* the configurations the delay is computed for: the manager's policies and the
\* defaults, with their own max_delay or one of 3 s, under every strategy, with
\* and without jitter
DelayConfigs ==
    {[c EXCEPT !.backoff_strategy = st, !.jitter = j,
               !.max_delay = IF short THEN 30 ELSE @] :
        c \in {DefaultRetryConfig} \cup {retry_configs[et] : et \in DOMAIN retry_configs},
        st \in BackoffStrategies,
        j \in BOOLEAN,
        short \in BOOLEAN}

DLIdle ==
    dl = [attempt |-> 1, config |-> DefaultRetryConfig, rnd |-> 0, op |-> "none",
          delay |-> Frac(0, 1)]

DLInit ==
    /\ now = 1
    /\ \E attempt \in 1..MaxDelayAttempt, config \in DelayConfigs, rnd \in 0..(RandomSteps - 1) :
          dl = [attempt |-> attempt, config |-> config, rnd |-> rnd, op |-> "none",
                delay |-> Frac(0, 1)]

CalculateDelay ==
    /\ dl.op = "none"
    /\ dl' = [dl EXCEPT !.op = "calculate_delay",
                        !.delay = calculate_delay(dl.attempt, dl.config, dl.rnd)]
    /\ UNCHANGED <<now, ec, qb, cbVars, rt, mgrVars, gsVars, svcVars>>

-----------------------------------------------------------------------------
(* SpecWhere: build_where_conditions (queries.py 16-61) applied to a map of   *)
(* conditions drawn by Init                                                   *)

\* the keys tried, one of each kind of suffix
ConditionKeys ==
    {<<"name", "_contains">>, <<"status", "">>,
     <<"incorporation_date", "_from">>, <<"incorporation_date", "_to">>}

ConditionValues == {None, <<"">>, <<"x">>, <<"y">>}

\* the maps of at most n conditions: a key occurs once, in any order
RECURSIVE ConditionMaps(_)
ConditionMaps(n) ==
    IF n = 0 THEN {<< >>}
    ELSE LET shorter == ConditionMaps(n - 1)
         IN  shorter \cup
                 {Append(m, Condition(k[1], k[2], v)) :
                     m \in {x \in shorter : Len(x) = n - 1},
                     k \in ConditionKeys, v \in ConditionValues}

Keys(m) == {<<m[i].field, m[i].suffix>> : i \in DOMAIN m}

NoWhere == [where_clause |-> << >>, parameters |-> EmptyMap]

QBIdle ==
    qb = [node_var |-> "e", conditions |-> << >>, built |-> 0,
          out |-> NoWhere, again |-> NoWhere]

QBInit ==
    /\ now = 1
    /\ \E node_var \in {"e", "o"}, m \in ConditionMaps(MaxConditions) :
          /\ Cardinality(Keys(m)) = Len(m)
          /\ qb = [node_var |-> node_var, conditions |-> m, built |-> 0,
                   out |-> NoWhere, again |-> NoWhere]

\* QueryBuilder.build_where_conditions(node_var, conditions), a first and a
\* second time on the same arguments
BuildWhereConditions ==
    /\ qb.built = 0
    /\ qb' = [qb EXCEPT !.built = 1,
                        !.out = build_where_conditions(qb.node_var, qb.conditions)]
    /\ UNCHANGED <<now, ec, dl, cbVars, rt, mgrVars, gsVars, svcVars>>

BuildWhereConditionsAgain ==
    /\ qb.built = 1
    /\ qb' = [qb EXCEPT !.built = 2,
                        !.again = build_where_conditions(qb.node_var, qb.conditions)]
    /\ UNCHANGED <<now, ec, dl, cbVars, rt, mgrVars, gsVars, svcVars>>

-----------------------------------------------------------------------------
(* SpecApi: the REST application (api.py): POST /api/v1/search/entities with  *)
(* a valid payload, the service returning or raising                          *)

DatabaseErrorCls == "DatabaseError"
ConnectionErrorCls == "ConnectionError"
HTTPExceptionCls == "HTTPException"

\* a class and its bases, nearest first (database.py 15-30, resilience.py
\* 25-38, the built-in ValueError)
mro(cls) ==
    CASE cls = DatabaseErrorCls -> <<DatabaseErrorCls, ExceptionCls>>
      [] cls = ConnectionErrorCls -> <<ConnectionErrorCls, DatabaseErrorCls, ExceptionCls>>
      [] cls = QueryErrorCls -> <<QueryErrorCls, DatabaseErrorCls, ExceptionCls>>
      [] OTHER -> <<cls, ExceptionCls>>

\* what the service may raise
ApiMsgs == {<<"Invalid", "query">>, <<"Connection", "failed">>}
ServiceErrors ==
    {Error(cls, msg, UNKNOWN) :
        cls \in {ValueErrorCls, QueryErrorCls, DatabaseErrorCls, ConnectionErrorCls,
                 RetryableErrorCls, NonRetryableErrorCls},
        msg \in ApiMsgs}

\* APIResponse(success=False, error=...).dict() (api.py 28-35)
ErrorBody(bucket, msg) == [success |-> FALSE, data |-> None, error |-> <<bucket \o msg>>]

\* the handlers the application registers (api.py 127-156): status code and
\* the words the error text starts with
exception_handlers ==
    [cls \in {DatabaseErrorCls, QueryErrorCls, ValueErrorCls} |->
        CASE cls = DatabaseErrorCls ->
                [status_code |-> 500, bucket |-> <<"Database", "error", ":">>]
          [] cls = QueryErrorCls ->
                [status_code |-> 400, bucket |-> <<"Query", "error", ":">>]
          [] OTHER ->
                [status_code |-> 422, bucket |-> <<"Validation", "error", ":">>]]

\* the classes of an exception's mro that have a handler, nearest first
RECURSIVE handled_classes(_)
handled_classes(classes) ==
    IF classes = << >> THEN << >>
    ELSE (IF Head(classes) \in DOMAIN exception_handlers THEN <<Head(classes)>> ELSE << >>)
            \o handled_classes(Tail(classes))

\* the response to an exception that leaves the endpoint: an HTTPException is
\* answered with its status code and its detail, another exception by the
\* handler of the nearest class that has one, and by a plain 500 if none has
respond(exc) ==
    LET hs == handled_classes(mro(exc.cls))
    IN  IF exc.cls = HTTPExceptionCls
        THEN [status_code |-> exc.status_code, body |-> [detail |-> exc.msg]]
        ELSE IF hs # << >>
        THEN [status_code |-> exception_handlers[hs[1]].status_code,
              body |-> ErrorBody(exception_handlers[hs[1]].bucket, exc.msg)]
        ELSE [status_code |-> 500, body |-> [detail |-> <<"Internal", "Server", "Error">>]]

\* the endpoint (api.py 203-228): what the service returns goes into an
\* APIResponse; except Exception raises HTTPException(500, detail=str(e))
search_entities_endpoint(out) ==
    IF out = Ok
    THEN [raised |-> None,
          response |-> <<[status_code |-> 200,
                          body |-> [success |-> TRUE, data |-> <<"results">>, error |-> None]]>>]
    ELSE [raised |-> <<[cls |-> HTTPExceptionCls, msg |-> out.msg, status_code |-> 500]>>,
          response |-> None]

\* a request from the endpoint to the response the client gets
answer(out) ==
    LET e == search_entities_endpoint(out)
    IN  IF e.raised = None THEN e.response[1] ELSE respond(e.raised[1])

ApiIdle == [pc |-> "idle", log |-> << >>]

ApiInit ==
    /\ now = 1
    /\ api = ApiIdle

\* a request arrives and the endpoint awaits the service (206-209)
ApiSearchEntities ==
    /\ api.pc = "idle"
    /\ Len(api.log) < MaxApiCalls
    /\ api' = [api EXCEPT !.pc = "awaiting"]
    /\ UNCHANGED <<now, svc, gw, srv, cbVars, rt, mgrVars, gsVars, fnVars>>

\* the service returns (209-225)
ApiServiceReturns ==
    /\ api.pc = "awaiting"
    /\ api' = [pc |-> "idle",
               log |-> Append(api.log, [service |-> Ok, response |-> answer(Ok)])]
    /\ UNCHANGED <<now, svc, gw, srv, cbVars, rt, mgrVars, gsVars, fnVars>>

\* the service raises (226-228, then the application's handlers)
ApiServiceRaises ==
    /\ api.pc = "awaiting"
    /\ \E exc \in ServiceErrors :
          api' = [pc |-> "idle",
                  log |-> Append(api.log, [service |-> exc, response |-> answer(exc)])]
    /\ UNCHANGED <<now, svc, gw, srv, cbVars, rt, mgrVars, gsVars, fnVars>>

-----------------------------------------------------------------------------
(* The specifications; each leaves the variables of the others alone *)

CBIdle ==
    /\ cb = CircuitBreaker(CircuitBreakerConfig(1, 10))
    /\ last = [op |-> "init", ret |-> TRUE, pre |-> cb, at |-> 1, failed_at |-> 0]
    /\ streak = 0

RTIdle ==
    rt = [policy |-> [of |-> "max_attempts", error_type |-> UNKNOWN, max_attempts |-> 0],
          config |-> DefaultRetryConfig, r |-> RetryIdle,
          invoked |-> 0, outcomes |-> << >>]

MgrIdle ==
    /\ breakers = circuit_breakers
    /\ error_counts = [et \in ErrorType |-> 0]
    /\ last_errors = [et \in ErrorType |-> None]
    /\ db = Neo4jDatabase
    /\ calls = [c \in Callers |-> CallIdle]
    /\ started = 0

SvcIdle == svc = ServiceIdle /\ gw = GatewayIdle /\ srv = ServerIdle /\ api = ApiIdle

GSIdle ==
    /\ shutdown_hooks = GracefulShutdown.shutdown_hooks
    /\ is_shutting_down = GracefulShutdown.is_shutting_down
    /\ sd = [s \in Shutters |-> ShutdownIdle]
    /\ hook_log = << >>

InitCB == CBInit /\ RTIdle /\ MgrIdle /\ GSIdle /\ ECIdle /\ DLIdle /\ QBIdle /\ SvcIdle
NextCB == CBCanExecute \/ CBRecordSuccess \/ CBRecordFailure \/ CBTick
SpecCB == InitCB /\ [][NextCB]_vars

InitRetry == RTInit /\ CBIdle /\ MgrIdle /\ GSIdle /\ ECIdle /\ DLIdle /\ QBIdle /\ SvcIdle
NextRetry == RTCall \/ RTFinish \/ RTWake \/ RTTick
SpecRetry == InitRetry /\ [][NextRetry]_vars

Init == MgrInit /\ CBIdle /\ RTIdle /\ GSIdle /\ ECIdle /\ DLIdle /\ QBIdle /\ SvcIdle
Next == StartCall \/ FinishCall \/ WakeCall \/ MgrTick
Spec == Init /\ [][Next]_vars

\* SpecTerminating: one caller of the manager, whose awaited operation always
\* returns or raises and whose backoff sleeps always end
StartOne == Start("a", GenericInvocations, MaxCalls)
FinishOne == Finish("a")
WakeOne == Wake("a")
NextOne == StartOne \/ FinishOne \/ WakeOne \/ MgrTick
Terminating == WF_vars(FinishOne) /\ WF_vars(WakeOne)
SpecTerminating == Init /\ [][NextOne]_vars /\ Terminating

NextDB == GatewayCall \/ GatewayRetry \/ Disconnect \/ MgrTick
SpecDB == Init /\ [][NextDB]_vars

InitShutdown == GSInit /\ CBIdle /\ RTIdle /\ MgrIdle /\ ECIdle /\ DLIdle /\ QBIdle /\ SvcIdle
NextShutdown ==
    AddHook \/ CallShutdown \/ HookReturns \/ HookRaises \/ HookTimesOut \/ ShutdownTick
SpecShutdown == InitShutdown /\ [][NextShutdown]_vars

-----------------------------------------------------------------------------
(* SpecPatterns: OffshoreLeaksService.analyze_network_patterns (service.py    *)
(* 283-351) over OffshoreLeaksQueries.analyze_network_patterns (queries.py    *)
(* 367-450): the query is built, the gateway is awaited, the rows are shaped  *)

\* "star" stands for every pattern_type that is none of the three
PatternTypes == {"hub", "bridge", "cluster", "star"}

\* the query of a pattern_type: the items of its RETURN clause and its
\* parameters (queries.py 376-450)
analyze_network_patterns(node_id, pattern_type, max_depth, min_connections, limit) ==
    [returns |->
        CASE pattern_type = "hub" ->
                <<"connected", "connection_count", "total_neighbors",
                  "relationship_types", "neighbor_types">>
          [] pattern_type = "bridge" ->
                <<"bridge", "communities_connected", "total_connections",
                  "relationship_types">>
          [] pattern_type = "cluster" ->
                <<"cluster_nodes", "cluster_strength", "node_types">>
          [] OTHER ->
                <<"connected", "distance", "paths_count", "node_types">>,
     parameters |-> [node_id |-> node_id, max_depth |-> max_depth,
                     min_connections |-> min_connections, limit |-> limit]]

PatternNodes == {"n1", "n2"}

\* a row the database returns for a query: one value for each item of the
\* RETURN clause, around the node n
PatternRow(q, n) ==
    [col \in {q.returns[i] : i \in 1..Len(q.returns)} |->
        CASE col \in {"connected", "bridge"} -> n
          [] col = "cluster_nodes" -> <<n>>
          [] col \in {"relationship_types", "neighbor_types", "node_types"} -> <<"Entity">>
          [] OTHER -> q.parameters.min_connections]

\* the rows of a result: LIMIT $limit of them at most
PatternRecords(q) ==
    UNION {[1..n -> {PatternRow(q, m) : m \in PatternNodes}] :
              n \in 0..(IF q.parameters.limit < MaxRows THEN q.parameters.limit ELSE MaxRows)}

\* record.get(key, default)
get(record, key, default) == IF key \in DOMAIN record THEN record[key] ELSE default

\* one shaped row (service.py 310-332); record.get(node_key) is None or the
\* value
format_pattern(pattern_type, record) ==
    IF pattern_type = "cluster"
    THEN [cluster_nodes |-> record["cluster_nodes"],
          cluster_strength |-> record["cluster_strength"],
          node_types |-> record["node_types"]]
    ELSE LET node_key == IF pattern_type = "hub" THEN "connected" ELSE "bridge"
         IN  [node |-> IF node_key \in DOMAIN record THEN <<record[node_key]>> ELSE None,
              connection_count |-> get(record, "connection_count", 0),
              communities_connected |-> get(record, "communities_connected", 0),
              total_neighbors |-> get(record, "total_neighbors", 0),
              total_connections |-> get(record, "total_connections", 0),
              relationship_types |-> get(record, "relationship_types", << >>),
              neighbor_types |-> get(record, "neighbor_types", << >>)]

\* the SearchResult of the shaped rows (service.py 334-341)
PatternResult(pattern_type, limit, records) ==
    [total_count |-> Len(records), returned_count |-> Len(records), offset |-> 0,
     limit |-> limit,
     results |-> [i \in 1..Len(records) |-> format_pattern(pattern_type, records[i])]]

PatternsIdle ==
    [pc |-> "idle", pattern_type |-> "hub", query |-> << >>, rows |-> << >>,
     result |-> << >>]

PatInit ==
    /\ now = 1
    /\ svc = PatternsIdle

\* the service builds the query and awaits the gateway (service.py 292-306)
AnalyzeCall ==
    /\ svc.pc = "idle"
    /\ \E node_id \in PatternNodes, pattern_type \in PatternTypes, max_depth \in {1, 3},
          min_connections \in {1, 5}, limit \in {1, 20} :
          svc' = [PatternsIdle EXCEPT
                     !.pc = "awaiting",
                     !.pattern_type = pattern_type,
                     !.query = <<analyze_network_patterns(node_id, pattern_type, max_depth,
                                                          min_connections, limit)>>]
    /\ UNCHANGED <<now, gw, srv, api, cbVars, rt, mgrVars, gsVars, fnVars>>

\* the gateway returns rows, the service shapes and returns them (308-341)
AnalyzeReturns ==
    /\ svc.pc = "awaiting"
    /\ \E records \in PatternRecords(svc.query[1]) :
          svc' = [svc EXCEPT
                     !.pc = "returned",
                     !.rows = records,
                     !.result = <<PatternResult(svc.pattern_type,
                                                svc.query[1].parameters.limit, records)>>]
    /\ UNCHANGED <<now, gw, srv, api, cbVars, rt, mgrVars, gsVars, fnVars>>

\* the gateway raises a DatabaseError, which the service lets through (346-347)
AnalyzeRaises ==
    /\ svc.pc = "awaiting"
    /\ svc' = [svc EXCEPT !.pc = "raised"]
    /\ UNCHANGED <<now, gw, srv, api, cbVars, rt, mgrVars, gsVars, fnVars>>

InitPatterns ==
    PatInit /\ api = ApiIdle /\ gw = GatewayIdle /\ srv = ServerIdle /\ CBIdle /\ RTIdle /\ MgrIdle /\ GSIdle
        /\ ECIdle /\ DLIdle /\ QBIdle
NextPatterns == AnalyzeCall \/ AnalyzeReturns \/ AnalyzeRaises
SpecPatterns == InitPatterns /\ [][NextPatterns]_vars

InitApi ==
    ApiInit /\ svc = ServiceIdle /\ gw = GatewayIdle /\ srv = ServerIdle /\ CBIdle /\ RTIdle
        /\ MgrIdle /\ GSIdle /\ ECIdle /\ DLIdle /\ QBIdle
NextApi == ApiSearchEntities \/ ApiServiceReturns \/ ApiServiceRaises
SpecApi == InitApi /\ [][NextApi]_vars

InitService == SvcInit /\ api = ApiIdle /\ gw = GatewayIdle /\ srv = ServerIdle /\ CBIdle /\ RTIdle /\ GSIdle /\ ECIdle /\ DLIdle /\ QBIdle
NextService ==
    ServiceCall \/ ServiceRetry \/ ServiceRaises \/ ServiceCounts \/ ServiceReturns
SpecService == InitService /\ [][NextService]_vars

InitClassifier == ECInit /\ DLIdle /\ QBIdle /\ CBIdle /\ RTIdle /\ MgrIdle /\ GSIdle /\ SvcIdle
NextClassifier == IsRetryable \/ ClassifyDatabaseError
SpecClassifier == InitClassifier /\ [][NextClassifier]_vars

InitWhere == QBInit /\ ECIdle /\ DLIdle /\ CBIdle /\ RTIdle /\ MgrIdle /\ GSIdle /\ SvcIdle
NextWhere == BuildWhereConditions \/ BuildWhereConditionsAgain
SpecWhere == InitWhere /\ [][NextWhere]_vars

InitGateway ==
    GwInit /\ api = ApiIdle /\ svc = ServiceIdle /\ srv = ServerIdle /\ CBIdle /\ RTIdle /\ MgrIdle /\ GSIdle
        /\ ECIdle /\ DLIdle /\ QBIdle
NextGateway ==
    GwConnect \/ GwDisconnect \/ GwHealthCheck \/ GwExecuteQuery \/ GwIsConnected
SpecGateway == InitGateway /\ [][NextGateway]_vars

InitServer ==
    SrvInit /\ api = ApiIdle /\ svc = ServiceIdle /\ gw = GatewayIdle /\ CBIdle /\ RTIdle /\ ECIdle /\ DLIdle
        /\ QBIdle
NextServer ==
    ServerStart \/ ServerRetry \/ ServerStarted \/ ServerStop \/ ServerHealthCheck
        \/ ServerHealthDone
SpecServer == InitServer /\ [][NextServer]_vars

InitDelay == DLInit /\ ECIdle /\ QBIdle /\ CBIdle /\ RTIdle /\ MgrIdle /\ GSIdle /\ SvcIdle
NextDelay == CalculateDelay
SpecDelay == InitDelay /\ [][NextDelay]_vars

-----------------------------------------------------------------------------
(* Properties of the CircuitBreaker, under SpecCB *)

\* less than recovery_timeout has passed between the latest record_failure and the call
TooEarly == last.at - last.failed_at < last.pre.config.recovery_timeout

\* C1: a breaker that starts closed with failure_count 0 is open after
\* failure_threshold record_failure calls with no record_success in between;
\* can_execute on an open breaker returns false and changes nothing while less
\* than recovery_timeout has passed since the latest failure, and returns true
\* and sets half_open once it has passed; record_success sets closed with
\* failure_count 0.
C1_StateMachine ==
    /\ (last.op = "record_failure" /\ streak >= cb.config.failure_threshold)
          => cb.state = OPEN
    /\ (last.op = "can_execute" /\ last.pre.state = OPEN /\ TooEarly)
          => (~last.ret /\ cb = last.pre)
    /\ (last.op = "can_execute" /\ last.pre.state = OPEN /\ ~TooEarly)
          => (last.ret /\ cb.state = HALF_OPEN)
    /\ last.op = "record_success" => (cb.state = CLOSED /\ cb.failure_count = 0)

\* the whole cycle: the trial of a half-open breaker with threshold 3 succeeded
C1_Witness ==
    /\ last.op = "record_success"
    /\ last.pre.state = HALF_OPEN
    /\ last.pre.failure_count = 3
    /\ cb.config.failure_threshold = 3

\* C8: failure_count goes down only in record_success, and then to 0
C8_OnlySuccessLowers ==
    [][cb'.failure_count < cb.failure_count
          => (last'.op = "record_success" /\ cb'.failure_count = 0)]_vars

\* record_success lowers to 0 a count that had grown to 4, twice the threshold,
\* through refused and admitted can_execute calls
C8_Witness ==
    /\ last.op = "record_success"
    /\ last.pre.failure_count = 4
    /\ last.pre.config.failure_threshold = 2
    /\ cb.failure_count = 0

-----------------------------------------------------------------------------
(* Properties of retry_async, under SpecRetry *)

RTDone == rt.r.pc \in {"returned", "raised"}

AllRetryable == \A i \in 1..Len(rt.outcomes) : IsRetryableError(rt.outcomes[i])

\* C4: with max_attempts = N >= 1, a function that raises a RetryableError on
\* every attempt is invoked exactly N times and the wrapper raises the last
\* of these errors.
C4_Exhaustion ==
    (RTDone /\ rt.config.max_attempts >= 1 /\ AllRetryable)
        => /\ rt.invoked = rt.config.max_attempts
           /\ Len(rt.outcomes) = rt.config.max_attempts
           /\ rt.r.pc = "raised"
           /\ rt.r.result = rt.outcomes[Len(rt.outcomes)]

\* three attempts gone, the last error differing from the first
C4_Witness ==
    /\ rt.r.pc = "raised"
    /\ rt.config.max_attempts = 3
    /\ rt.invoked = 3
    /\ AllRetryable
    /\ rt.outcomes[1].msg # rt.outcomes[3].msg
    /\ rt.r.result.msg = rt.outcomes[3].msg

\* C5: an error that is not a RetryableError ends the loop on the attempt that
\* raised it: it is the error raised, no invocation and no sleep follows it.
C5_NoRetry ==
    \A i \in 1..Len(rt.outcomes) :
        (rt.outcomes[i].cls # "ok" /\ ~IsRetryableError(rt.outcomes[i]))
            => /\ i = Len(rt.outcomes)
               /\ rt.r.pc = "raised"
               /\ rt.r.result = rt.outcomes[i]
               /\ rt.invoked = i
               /\ rt.r.slept = i - 1

\* an unclassified exception on attempt 1 of a policy of 5 attempts
C5_Witness ==
    /\ rt.config.max_attempts = 5
    /\ rt.r.pc = "raised"
    /\ rt.invoked = 1
    /\ rt.r.slept = 0
    /\ rt.outcomes[1].cls = ExceptionCls

\* the wrapper was built from the manager's policy for an error type
PolicyOfType == rt.r.pc # "idle" /\ rt.policy.of = "error_type"

ConnectionPolicy == get_retry_config(DATABASE_CONNECTION)

\* C9 as stated: of the policies get_retry_config returns for the error types,
\* the database_connection one has the most attempts and the largest max_delay,
\* and the query_timeout one has strictly less of both.
C9_Original ==
    PolicyOfType
        => /\ rt.config.max_attempts <= ConnectionPolicy.max_attempts
           /\ rt.config.max_delay <= ConnectionPolicy.max_delay
           /\ rt.policy.error_type = QUERY_TIMEOUT
                 => /\ rt.config.max_attempts < ConnectionPolicy.max_attempts
                    /\ rt.config.max_delay < ConnectionPolicy.max_delay

\* C9 amended: database_connection has the most attempts of all error types and
\* the largest max_delay of the types with a policy of their own in retry_configs;
\* query_timeout has strictly less of both; the types without a policy of their own
\* get RetryConfig's defaults, 3 attempts and a max_delay of 60 s, twice the 30 s of
\* database_connection.
C9_Amended ==
    PolicyOfType
        => /\ rt.config.max_attempts <= ConnectionPolicy.max_attempts
           /\ rt.policy.error_type \in DOMAIN retry_configs
                 => rt.config.max_delay <= ConnectionPolicy.max_delay
           /\ rt.policy.error_type \notin DOMAIN retry_configs
                 => /\ rt.config.max_attempts = 3
                    /\ rt.config.max_delay = 2 * ConnectionPolicy.max_delay
           /\ rt.policy.error_type = QUERY_TIMEOUT
                 => /\ rt.config.max_attempts < ConnectionPolicy.max_attempts
                    /\ rt.config.max_delay < ConnectionPolicy.max_delay

\* a loop run to its end under the policy of resource_exhaustion
C9_Witness ==
    /\ PolicyOfType
    /\ rt.policy.error_type = RESOURCE_EXHAUSTION
    /\ rt.config.max_delay > ConnectionPolicy.max_delay
    /\ rt.r.pc = "raised"
    /\ rt.invoked = 3

-----------------------------------------------------------------------------
(* Properties of execute_with_resilience, under Spec *)

\* breaker b is open and less than its recovery_timeout has passed since its last failure
OpenAndEarly(b) ==
    /\ breakers[b].state = OPEN
    /\ breakers[b].last_failure_time # None
    /\ now - breakers[b].last_failure_time[1] < breakers[b].config.recovery_timeout

\* C2: a call of execute_with_resilience on a breaker that is open, its recovery
\* timeout not elapsed, raises "Circuit breaker is open" in the step that makes
\* the call: func is not invoked, nothing is retried or slept, and the breaker
\* is as it was.
C2_RejectedCall ==
    [][\A b \in DOMAIN breakers :
          (started' = started + 1 /\ OpenAndEarly(b))
             => /\ breakers'[b] = breakers[b]
                /\ \A c \in Callers :
                      (calls'[c].breaker = b /\ calls'[c] # calls[c])
                         => /\ calls'[c].invoked = 0
                            /\ ~calls'[c].inflight
                            /\ calls'[c].rejected = 1
                            /\ calls'[c].r.pc = "raised"
                            /\ calls'[c].r.attempt = 1
                            /\ calls'[c].r.slept = 0
                            /\ calls'[c].r.result.cls = NonRetryableErrorCls
                            /\ calls'[c].r.result.msg = <<"Circuit", "breaker", "is", OPEN>>]_vars

\* a call refused on its first attempt by a breaker that is still open
C2_Witness ==
    \E c \in Callers :
        /\ calls[c].breaker = "database"
        /\ calls[c].start.state = OPEN
        /\ calls[c].r.pc = "raised"
        /\ calls[c].rejected = 1
        /\ calls[c].invoked = 0
        /\ breakers["database"].state = OPEN

\* the calls whose attempt in flight was admitted as the trial of breaker b
Trials(b) ==
    {c \in Callers : calls[c].inflight /\ calls[c].breaker = b /\ calls[c].admitted = HALF_OPEN}

\* C3: at most one trial is in flight on a half-open breaker
C3_OneTrial == \A b \in DOMAIN breakers : Cardinality(Trials(b)) <= 1

\* the bookkeeping of one call on a named breaker
Bookkeeping(k) ==
    /\ k.checks = k.r.attempt
    /\ k.invoked + k.rejected = k.checks
    /\ k.rec_s + k.rec_f = k.invoked - (IF k.inflight THEN 1 ELSE 0)
    /\ k.rec_f = k.failures
    /\ k.rec_s = (IF k.r.pc = "returned" THEN 1 ELSE 0)

\* C7: in a call on a named breaker every attempt passes can_execute, every
\* attempt that was admitted and has finished called exactly one of
\* record_success and record_failure, once, and each failure of func raises
\* the breaker's failure_count by 1.
C7_OneRecordPerAttempt ==
    /\ [](\A c \in Callers :
             (calls[c].breaker \in DOMAIN breakers /\ calls[c].r.pc # "idle")
                => Bookkeeping(calls[c]))
    /\ [][\A c \in Callers :
             (calls'[c].breaker \in DOMAIN breakers
                 /\ calls'[c].failures = calls[c].failures + 1)
                => breakers'[calls'[c].breaker].failure_count
                      = breakers[calls'[c].breaker].failure_count + 1]_vars

\* a call on the database breaker that failed twice and then succeeded
C7_Witness ==
    \E c \in Callers :
        /\ calls[c].breaker = "database"
        /\ calls[c].r.pc = "returned"
        /\ calls[c].failures = 2
        /\ calls[c].rec_f = 2
        /\ calls[c].rec_s = 1
        /\ calls[c].invoked = 3

-----------------------------------------------------------------------------
(* Properties of the gateway behind database_resilient, under SpecDB *)

\* C6: a gateway call that began with the database breaker closed and
\* failure_count 0 and whose every attempt failed with a retryable connection
\* error invoked the method 5 times and raises the message of the last failure.
C6_Exhausts ==
    \A c \in Callers :
        (/\ calls[c].func \in GatewayFuncs
         /\ calls[c].r.pc = "raised"
         /\ calls[c].start = [state |-> CLOSED, failure_count |-> 0]
         /\ calls[c].failures >= 1
         /\ calls[c].conn_only)
            => /\ calls[c].invoked = 5
               /\ calls[c].r.result.msg = calls[c].underlying[1].msg

\* C10: a query timeout raised in execute_query is retried under the
\* query_timeout policy: at most 3 attempts, max_delay 10 s.
C10_TimeoutPolicy ==
    \A c \in Callers :
        (/\ calls[c].func = "execute_query"
         /\ calls[c].underlying # << >>
         /\ calls[c].underlying[1].error_type = QUERY_TIMEOUT)
            => /\ calls[c].config.max_attempts <= 3
               /\ calls[c].config.max_delay <= 100

-----------------------------------------------------------------------------
(* Properties of the gateway's operations and of the error counters *)

\* C11: while the 'database' breaker is open and its recovery timeout has not
\* elapsed, no operation of the gateway (connect, disconnect, health_check,
\* execute_query) touches the driver: the gateway's driver and connected flag
\* stay as they are.
C11_AllGuarded ==
    [][OpenAndEarly("database") => db' = db]_vars

\* the attempts of a call that raised, refused ones included
FailedAttempts(k) == k.failures + k.rejected

\* the error retryable_func raised last
LatestRaised(k) == IF k.r.pc = "sleeping" THEN k.r.last_exception[1] ELSE k.r.result

\* the counters and snapshots move as one step of caller c says they should
CountedStep(c) ==
    LET before == IF started' # started THEN 0 ELSE FailedAttempts(calls[c])
        n == FailedAttempts(calls'[c]) - before
        e == LatestRaised(calls'[c])
    IN  /\ \A d \in Callers \ {c} : calls'[d] = calls[d]
        /\ n \in {0, 1}
        /\ n = 0 => (error_counts' = error_counts /\ last_errors' = last_errors)
        /\ n = 1 =>
              /\ error_counts' = [error_counts EXCEPT ![e.error_type] = @ + 1]
              /\ last_errors' = [last_errors EXCEPT ![e.error_type] =
                                    <<[error |-> e.msg, timestamp |-> now]>>]

\* other values the counters and snapshots could hold
OtherStats(W) ==
    [W EXCEPT !.error_counts = [et \in ErrorType |-> 7],
              !.last_errors = [et \in ErrorType |-> None]]

\* what caller c's next step does to its call and to the breakers is the same
\* whatever the counters and snapshots hold
BlindToStats(c) ==
    LET W == World(c)
        same(A, B) == A.call = B.call /\ A.breakers = B.breakers
    IN  /\ calls[c].inflight =>
              \A out \in GenericOutcomes :
                  same(attempt_end(W, out, now), attempt_end(OtherStats(W), out, now))
        /\ calls[c].r.pc = "sleeping" =>
              LET W0 == [W EXCEPT !.call.r = retry_wake(@)]
              IN  same(attempt_begin(W0, now), attempt_begin(OtherStats(W0), now))

\* C12: every attempt that raises inside execute_with_resilience adds exactly 1
\* to exactly one ErrorType counter, the type the error was classified as, and
\* overwrites that type's snapshot with the error's message and the time; a
\* step without a failed attempt leaves counters and snapshots alone, so no
\* counter ever decreases; and the retry decision and the breaker's admission
\* do not depend on the counters or snapshots.
C12_OneCounterPerFailure ==
    /\ [](\A c \in Callers : BlindToStats(c))
    /\ [][\E c \in Callers : CountedStep(c)]_vars

\* two failures of one type, the snapshot overwritten at a later time, and a
\* failure of another type
C12_Witness ==
    /\ error_counts[DATABASE_CONNECTION] >= 2
    /\ error_counts[UNKNOWN] >= 1
    /\ last_errors[DATABASE_CONNECTION] # None
    /\ last_errors[DATABASE_CONNECTION][1].timestamp > 1

RECURSIVE SumOver(_, _)
SumOver(f, S) ==
    IF S = {} THEN 0
    ELSE LET x == CHOOSE y \in S : TRUE IN f[x] + SumOver(f, S \ {x})

\* the attempts that raised in all calls of all callers so far
TotalFailedAttempts ==
    SumOver([c \in Callers |-> calls[c].prior + FailedAttempts(calls[c])], Callers)

\* C13: with concurrent calls on the shared manager no counter update is lost:
\* the sum of error_counts equals the number of attempts that raised across all
\* calls, at every await point and so once all calls have finished.
C13_NoLostUpdate ==
    SumOver(error_counts, ErrorType) = TotalFailedAttempts

\* both callers have finished a call in which attempts failed
C13_Witness ==
    /\ \A c \in Callers :
          calls[c].r.pc \in {"returned", "raised"} /\ calls[c].failures >= 1
    /\ started = MaxCalls
    /\ SumOver(error_counts, ErrorType) >= 3

-----------------------------------------------------------------------------
(* Properties of GracefulShutdown, under SpecShutdown *)

HookEndings == {"completed", "failed", "timed_out"}

\* the hooks started so far, in the order they were started
StartedHooks ==
    LET starts == SelectSeq(hook_log, LAMBDA x : x.ev = "start")
    IN  [k \in 1..Len(starts) |-> starts[k].hook]

\* the shutdown() calls that got past the guard
Runners == {s \in Shutters : sd[s].n0 >= 1}

\* C14: shutdown starts the hooks registered when it was called in reverse
\* registration order (the last registered first), one at a time: a hook is
\* started only after the one before it has ended; and whatever way a hook
\* ended, raising included, the hook registered before it is started next, so a
\* shutdown that has returned has started every one of them.
C14_ReverseOrder ==
    /\ \A s \in Runners :
          /\ \A k \in 1..Len(StartedHooks) : StartedHooks[k] = sd[s].n0 - k + 1
          /\ sd[s].pc = "done" => Len(StartedHooks) = sd[s].n0
    /\ \A k \in 1..Len(hook_log) :
          /\ (hook_log[k].ev = "start") <=> (k % 2 = 1)
          /\ hook_log[k].ev \in HookEndings =>
                /\ hook_log[k].hook = hook_log[k - 1].hook
                /\ hook_log[k].hook > 1 =>
                      /\ k < Len(hook_log)
                      /\ hook_log[k + 1] = [ev |-> "start", hook |-> hook_log[k].hook - 1]
    /\ Cardinality({s \in Shutters : sd[s].pc = "running"}) <= 1

\* three hooks were registered, the second one raised, and shutdown returned
\* after starting the third, the second and the first, in that order
C14_Witness ==
    /\ \E s \in Shutters : sd[s].pc = "done" /\ sd[s].n0 = 3
    /\ StartedHooks = <<3, 2, 1>>
    /\ \E k \in 1..Len(hook_log) : hook_log[k] = [ev |-> "failed", hook |-> 2]

\* C15: whatever number of shutdown() calls is made, one after the other or
\* while one is under way, every registered hook is started at most once, and
\* only one call ever runs hooks: every other call returns without awaiting one.
C15_Idempotent ==
    /\ \A k, l \in 1..Len(StartedHooks) : StartedHooks[k] = StartedHooks[l] => k = l
    /\ Cardinality(Runners) <= 1
    /\ \A s \in Shutters \ Runners : sd[s].pc \in {"idle", "done"}

\* a shutdown has completed with hooks, the same caller called again and
\* another caller called while it was under way or after: three calls and
\* each hook started once
C15_Witness ==
    /\ \E s \in Shutters : sd[s].calls = 2 /\ sd[s].pc = "done"
    /\ \E s \in Shutters : sd[s].calls >= 1 /\ sd[s].n0 = 0 /\ sd[s].pc = "done"
    /\ Len(StartedHooks) >= 2

\* C16: a hook awaited by shutdown(total_timeout) with n hooks registered is
\* never still running after more than total_timeout / n: by then it has been
\* abandoned and the next hook started.
C16_SliceBound ==
    \A s \in Shutters :
        sd[s].pc = "running" => (sd[s].elapsed - 1) * sd[s].n < sd[s].timeout

-----------------------------------------------------------------------------
(* Properties of the pure functions, under SpecClassifier and SpecDelay *)

\* C17: is_retryable(error, kind) is false for every NonRetryableError and true
\* for every RetryableError whatever the kind; for an error of any other class
\* it is true exactly when kind is database_connection, query_timeout,
\* network_error or resource_exhaustion.
C17_IsRetryable ==
    ec.op = "is_retryable" =>
        ec.retryable =
            CASE ec.error.cls = NonRetryableErrorCls -> FALSE
              [] ec.error.cls = RetryableErrorCls -> TRUE
              [] OTHER -> ec.error_type \in {"database_connection", "query_timeout",
                                             "network_error", "resource_exhaustion"}

\* an unmarked error with kind resource_exhaustion was found retryable
C17_Witness ==
    /\ ec.op = "is_retryable"
    /\ ec.error.cls = ExceptionCls
    /\ ec.error_type = RESOURCE_EXHAUSTION
    /\ ec.retryable

\* base_delay x multiplier, limited to max_delay, for the arguments in dl
ExpectedDelay ==
    LET c == dl.config
        product == CASE c.backoff_strategy = "exponential" ->
                            Frac(c.base_delay * Pow(c.exponential_base, dl.attempt - 1),
                                 Pow(10, dl.attempt - 1))
                     [] c.backoff_strategy = "linear" -> Frac(c.base_delay * dl.attempt, 1)
                     [] OTHER -> Frac(c.base_delay, 1)
    IN  IF FracLeq(Frac(c.max_delay, 1), product) THEN Frac(c.max_delay, 1) ELSE product

\* C18: calculate_delay(attempt, config) for attempt >= 1 is
\* min(base_delay x multiplier, max_delay) with multiplier
\* exponential_base^(attempt-1), attempt or 1 for the exponential, linear and any
\* other strategy; with jitter it lies between half of that value and that
\* value; in both cases it does not exceed max_delay.
C18_DelayBounds ==
    dl.op = "calculate_delay" =>
        /\ IF dl.config.jitter
           THEN /\ FracLeq(Frac(ExpectedDelay.num, 2 * ExpectedDelay.den), dl.delay)
                /\ FracLeq(dl.delay, ExpectedDelay)
           ELSE dl.delay = ExpectedDelay
        /\ FracLeq(dl.delay, Frac(dl.config.max_delay, 1))

\* the third exponential delay of the connection policy with max_delay 3 s:
\* 2 s x 2^2 = 8 s is cut to 3 s, and jitter of 0.5 + 0.5 x 2/4 makes it 2.25 s
C18_Witness ==
    /\ dl.op = "calculate_delay"
    /\ dl.config = [retry_configs[DATABASE_CONNECTION] EXCEPT !.max_delay = 30]
    /\ dl.attempt = 3
    /\ dl.rnd = 2
    /\ dl.delay = [num |-> 45, den |-> 2]

-----------------------------------------------------------------------------
(* Properties of the service's parameter validation, under SpecService *)

\* the request is outside the bounds of its parameter model
OutOfBounds(req) ==
    \/ req.op \in SearchOps /\ (req.limit < 1 \/ req.limit > 100 \/ req.offset < 0)
    \/ req.op = "get_connections"
          /\ (req.limit < 1 \/ req.limit > 200 \/ req.max_depth < 1 \/ req.max_depth > 5
                 \/ ~req.has_start)

\* the operation under way was called with arguments outside their bounds
CalledOutOfBounds == svc.pc # "idle" /\ OutOfBounds(svc.req)

\* C19: search_entities, search_officers and get_connections called with
\* parameters outside their bounds raise a ValueError whose message starts with
\* 'Invalid parameters' without sending a query to the database, and the call
\* leaves the breakers, the error counters and snapshots, the gateway and the
\* gateway call records as they were.
C19_ValidationFirst ==
    /\ [](CalledOutOfBounds =>
             /\ svc.pc = "raised"
             /\ svc.error.cls = "ValueError"
             /\ SubSeq(svc.error.msg, 1, 2) = <<"Invalid", "parameters">>
             /\ svc.queries = << >>)
    /\ [][(svc' # svc /\ OutOfBounds(svc'.req)) => UNCHANGED mgrVars]_vars

\* get_connections with max_depth 6 was refused after an operation whose query failed
C19_Witness ==
    /\ svc.pc = "raised"
    /\ svc.req.op = "get_connections"
    /\ svc.req.max_depth = 6
    /\ svc.req.limit = 200
    /\ svc.req.has_start
    /\ svc.error.cls = "ValueError"
    /\ svc.count = 2
    /\ breakers["database"].failure_count >= 1

\* C20: an analysis operation called with limit or max_depth below 1 sends no
\* query to the database and ends with a validation error.
C20_AnalysisValidated ==
    (/\ svc.pc # "idle"
     /\ svc.req.op \in AnalysisOps
     /\ (svc.req.limit < 1 \/ svc.req.max_depth < 1))
        => /\ svc.queries = << >>
           /\ svc.pc = "raised"
           /\ svc.error.cls = "ValueError"

-----------------------------------------------------------------------------
(* Properties of the service's operations and of the query templates, under  *)
(* SpecService                                                               *)

\* find_common_connections was called with fewer than 2 node ids
TooFewGiven(s) == s.req.op = "find_common_connections" /\ s.req.node_ids < 2

\* C21: find_common_connections called with fewer than 2 node ids always fails
\* with the ValueError of the template's check: the template raises before it
\* builds a query, and the service operation ends raised with that error, with
\* no query built or sent and the manager and the gateway left as they were.
C21_TooFewNodeIds ==
    /\ [](/\ \A req \in Requests :
                (req.op = "find_common_connections" /\ req.node_ids < 2)
                    => find_common_connections(req)
                          = Error(ValueErrorCls, TooFewNodeIds, UNKNOWN)
          /\ (svc.pc # "idle" /\ TooFewGiven(svc))
                => /\ svc.pc = "raised"
                   /\ svc.error = Error(ValueErrorCls, TooFewNodeIds, UNKNOWN)
                   /\ svc.queries = << >>)
    /\ [][(svc' # svc /\ TooFewGiven(svc')) => UNCHANGED mgrVars]_vars

\* find_common_connections with one node id and otherwise valid arguments was
\* refused, after an operation that did reach the database
C21_Witness ==
    /\ svc.pc = "raised"
    /\ svc.req.op = "find_common_connections"
    /\ svc.req.node_ids = 1
    /\ svc.req.limit = 10
    /\ svc.req.max_depth = 3
    /\ svc.error.msg = TooFewNodeIds
    /\ svc.count = 2
    /\ started = 1

\* a search has returned
SearchReturned == svc.pc = "returned" /\ svc.req.op \in SearchOps

\* C22: the SearchResult a search returns has returned_count equal to the
\* number of its results and at most its limit, and its limit and offset are
\* those of the request, within the bounds of SearchParameters.
C22_PageWithinLimit ==
    SearchReturned =>
        /\ svc.result.returned_count = Len(svc.result.results)
        /\ svc.result.returned_count <= svc.result.limit
        /\ svc.result.limit = svc.req.limit
        /\ svc.result.offset = svc.req.offset
        /\ svc.result.limit >= 1 /\ svc.result.limit <= 100
        /\ svc.result.offset >= 0

\* a search with limit 1 returned its one record while the count query found more
C22_Witness ==
    /\ SearchReturned
    /\ svc.req.limit = 1
    /\ svc.result.returned_count = 1
    /\ svc.result.results = <<1>>
    /\ svc.result.total_count = 2

\* the tokens of a text that order or page its rows
PagingTokens == {"ORDER", "BY", "SKIP", "LIMIT", "$offset", "$limit"}

Tokens(text) == {text[i] : i \in DOMAIN text}

\* the text before its projection: the pattern and the predicate
BeforeReturn(text) == split0(text, <<"RETURN">>)

\* the projection of a text and what follows it
FromReturn(text) == SubSeq(text, Len(BeforeReturn(text)) + 1, Len(text))

\* page and count are the page query of a search and its count query
CountOf(page, count) ==
    LET v == IF page.op = "search_entities" THEN "e" ELSE "o"
    IN  /\ page.kind = "page" /\ count.kind = "count"
        /\ PagingTokens \subseteq Tokens(page.text)
        /\ {"limit", "offset"} \subseteq DOMAIN page.parameters
        /\ BeforeReturn(count.text) = BeforeReturn(page.text)
        /\ FromReturn(count.text) = <<"RETURN", "count(" \o v \o ")", "as", "total">>
        /\ Tokens(count.text) \cap PagingTokens = {}
        /\ DOMAIN count.parameters = DOMAIN page.parameters \ {"limit", "offset"}
        /\ \A k \in DOMAIN count.parameters : count.parameters[k] = page.parameters[k]

\* C23: a search sends at most two queries, the page query and then its count
\* query, and has sent both when it returns; the count query has the pattern,
\* the predicate and the parameters of the page query except limit and offset,
\* projects a count and has no ORDER BY, SKIP or LIMIT; the count query is sent
\* only once the page query has returned.
C23_PageThenCount ==
    /\ [](svc.req.op \in SearchOps =>
             /\ Len(svc.queries) <= 2
             /\ SearchReturned => Len(svc.queries) = 2
             /\ Len(svc.queries) >= 1 => svc.queries[1] = first_query(svc.req)
             /\ Len(svc.queries) = 2 => CountOf(svc.queries[1], svc.queries[2]))
    /\ [][(svc.req.op \in SearchOps /\ Len(svc'.queries) = 2 /\ Len(svc.queries) < 2)
             => /\ Len(svc.queries) = 1
                /\ calls["a"].r.pc = "returned"
                /\ svc'.queries[1] = svc.queries[1]]_vars

\* a search by name returned after its page query and its count query, the
\* count query bound to the name alone
C23_Witness ==
    /\ SearchReturned
    /\ svc.req.name = <<"acme">>
    /\ svc.req.op = "search_officers"
    /\ Len(svc.queries) = 2
    /\ "WHERE" \in Tokens(svc.queries[2].text)
    /\ DOMAIN svc.queries[1].parameters = {"limit", "offset", "param_0"}
    /\ DOMAIN svc.queries[2].parameters = {"param_0"}
    /\ svc.queries[2].parameters["param_0"] = "acme"

\* a traversal or analysis operation has returned
TraversalReturned == svc.pc = "returned" /\ svc.req.op \notin SearchOps

\* C24: get_connections and the analysis operations send one query; whatever
\* records it returns, the empty list included, the operation returns a
\* SearchResult with total_count and returned_count the number of records,
\* one result per record and offset 0; it raises only when its query raised.
C24_TraversalResult ==
    /\ [](svc.req.op \notin SearchOps =>
             /\ Len(svc.queries) <= 1
             /\ TraversalReturned =>
                   /\ Len(svc.queries) = 1
                   /\ svc.rows \in Records(svc.queries[1])
                   /\ svc.result.total_count = Len(svc.rows)
                   /\ svc.result.returned_count = Len(svc.rows)
                   /\ svc.result.results = svc.rows
                   /\ svc.result.offset = 0)
    /\ [][(svc.pc = "awaiting" /\ svc'.pc = "raised") => calls["a"].r.pc = "raised"]_vars
    /\ [][(svc.pc = "awaiting" /\ svc.req.op \notin SearchOps
              /\ calls["a"].r.pc = "returned" /\ svc' # svc)
             => svc'.pc = "returned"]_vars

\* find_shortest_paths returned an empty result
C24_Witness ==
    /\ TraversalReturned
    /\ svc.req.op = "find_shortest_paths"
    /\ svc.rows = << >>
    /\ svc.result.returned_count = 0
    /\ svc.result.total_count = 0

\* get_connections returned the two records of its query
C24_WitnessRows ==
    /\ TraversalReturned
    /\ svc.req.op = "get_connections"
    /\ svc.result.returned_count = 2
    /\ svc.result.total_count = 2

-----------------------------------------------------------------------------
(* Properties of build_where_conditions, under SpecWhere *)

\* the conditions of a map whose value is neither None nor the empty string
Surviving(m) == SelectSeq(m, LAMBDA c : c.value # None /\ c.value # <<"">>)

ParamName(i) == "param_" \o ToString(i)

\* the references to numbered parameters in a text, in order
ParamRefs(text) ==
    SelectSeq(text, LAMBDA t : t \in {"$" \o ParamName(i) : i \in 0..(2 * MaxConditions)})

\* C25: build_where_conditions emits no predicate and no parameter for a
\* condition whose value is None or "": with k surviving conditions the
\* parameter map has exactly the keys param_0 .. param_(k-1), the i-th
\* surviving condition in the order of the map is bound to param_(i-1) and its
\* predicate is the i-th of the clause, which is empty when k = 0; a second
\* call on the same arguments returns the same clause and parameter map.
C25_WhereConditions ==
    qb.built >= 1 =>
        LET live == Surviving(qb.conditions)
            k == Len(live)
        IN  /\ DOMAIN qb.out.parameters = {ParamName(i) : i \in 0..(k - 1)}
            /\ \A i \in 1..k : qb.out.parameters[ParamName(i - 1)] = live[i].value[1]
            /\ ParamRefs(qb.out.where_clause) = [i \in 1..k |-> "$" \o ParamName(i - 1)]
            /\ qb.out.where_clause =
                  IF k = 0 THEN << >>
                  ELSE <<"WHERE">> \o
                       join_and([i \in 1..k |->
                                    where_part(qb.node_var, live[i], ParamName(i - 1))])
            /\ qb.built = 2 => qb.again = qb.out

\* of three conditions the first is empty and the third is None: the second
\* alone is bound, to param_0, both times
C25_Witness ==
    /\ qb.built = 2
    /\ Len(qb.conditions) = 3
    /\ qb.conditions[1].value = <<"">>
    /\ qb.conditions[2].value = <<"x">>
    /\ qb.conditions[2].suffix = "_contains"
    /\ qb.conditions[3].value = None
    /\ DOMAIN qb.out.parameters = {"param_0"}
    /\ qb.out.where_clause
          = <<"WHERE", "toLower(o.name)", "CONTAINS", "toLower(", "$param_0", ")">>

-----------------------------------------------------------------------------
(* Properties of connect and disconnect *)

\* C26: whatever fails inside connect, the creation of the driver or the
\* connectivity check, connect raises a RetryableError of kind
\* database_connection, which the manager classifies as database_connection;
\* the call runs under the database_connection policy and a failed attempt
\* that is not the policy's last is followed by a backoff sleep and another
\* attempt, so a connect call that raises after a failure has begun a second
\* attempt at least.
C26_ConnectRetried ==
    /\ [](\A c \in Callers :
             calls[c].func = "connect" =>
                /\ calls[c].config = retry_configs[DATABASE_CONNECTION]
                /\ calls[c].underlying # << >> =>
                      /\ calls[c].underlying[1].cls = RetryableErrorCls
                      /\ calls[c].underlying[1].error_type = DATABASE_CONNECTION
                      /\ classify_database_error(calls[c].underlying[1])
                            = DATABASE_CONNECTION
                      /\ calls[c].conn_only
                /\ (calls[c].r.pc = "raised" /\ calls[c].failures >= 1)
                      => calls[c].r.attempt >= 2)
    /\ [][\A c \in Callers :
             (/\ calls[c].func = "connect"
              /\ calls'[c].func = "connect"
              /\ calls'[c].failures = calls[c].failures + 1
              /\ calls'[c].r.attempt < calls'[c].config.max_attempts)
                => /\ calls'[c].r.pc = "sleeping"
                   /\ calls'[c].r.last_exception = calls'[c].underlying]_vars

\* connect failed twice and connected the gateway at its third attempt
C26_Witness ==
    /\ calls["a"].func = "connect"
    /\ calls["a"].r.pc = "returned"
    /\ calls["a"].failures = 2
    /\ calls["a"].invoked = 3
    /\ calls["a"].r.slept = 2
    /\ is_connected(db)

\* C27: after a connect() call that ended in failure the gateway holds no
\* driver and is not connected.
C27_FailedConnectClean ==
    \A c \in Callers :
        (/\ calls[c].func = "connect"
         /\ calls[c].r.pc = "raised"
         /\ calls[c].invoked >= 1)
            => /\ db.driver = NoDriver
               /\ ~is_connected(db)

\* the latest call on the gateway of SpecGateway, and the gateway before it
LastOp == gw.log[Len(gw.log)]

-----------------------------------------------------------------------------
(* Properties of OffshoreLeaksServer, under SpecServer *)

\* the i-th call on the server is a stop() that follows a successful start()
\* with no other stop() in between
StopAfterStart(i) ==
    /\ srv.log[i].method = "stop"
    /\ \E j \in 1..(i - 1) :
          /\ srv.log[j].method = "start"
          /\ ~srv.log[j].raised
          /\ \A k \in (j + 1)..(i - 1) : srv.log[k].method # "stop"

\* C29: every stop() that follows a successful start() runs
\* database.disconnect(), and when it has returned the server is not running
\* and the gateway is not connected.
C29_StopDisconnects ==
    /\ \A i \in 1..Len(srv.log) : StopAfterStart(i) => srv.log[i].disconnected
    /\ (srv.pc = "idle" /\ Len(srv.log) >= 1 /\ StopAfterStart(Len(srv.log)))
          => ~srv.running /\ ~is_connected(db)

\* the end of the latest call on the server
LastCall == srv.log[Len(srv.log)]

\* C30: health_check of the server never raises. Called while the gateway is
\* not connected it returns 'unhealthy' with database_connected false and the
\* details 'Database not connected' without calling the gateway; when the
\* gateway's health_check raises, it returns 'unhealthy' with
\* database_connected false and the text of the error in its details.
C30_HealthCheckNeverRaises ==
    /\ [](\A i \in 1..Len(srv.log) :
             srv.log[i].method = "health_check" =>
                /\ ~srv.log[i].raised
                /\ srv.log[i].health.status \in {"healthy", "unhealthy"}
                /\ srv.log[i].health.status = "healthy"
                      <=> srv.log[i].health.database_connected
                /\ ~srv.log[i].gateway =>
                      /\ srv.log[i].health.status = "unhealthy"
                      /\ srv.log[i].health.details = NotConnectedDetails)
    /\ [][(srv.pc = "idle" /\ Len(srv'.log) = Len(srv.log) + 1
              /\ srv'.log[Len(srv'.log)].method = "health_check")
             => /\ ~is_connected(db)
                /\ ~srv'.log[Len(srv'.log)].gateway
                /\ UNCHANGED mgrVars]_vars
    /\ [][(srv.pc = "idle" /\ srv'.pc = "health_check") => is_connected(db)]_vars
    /\ [][(srv.pc = "health_check" /\ srv'.pc = "idle" /\ calls["a"].r.pc = "raised")
             => /\ ~srv'.log[Len(srv'.log)].raised
                /\ srv'.log[Len(srv'.log)].health.status = "unhealthy"
                /\ ~srv'.log[Len(srv'.log)].health.database_connected
                /\ srv'.log[Len(srv'.log)].health.details = calls["a"].r.result.msg]_vars

\* a running server whose gateway health check failed answered 'unhealthy', and
\* answered 'unhealthy' again, without asking the gateway, once stopped
C30_Witness ==
    /\ Len(srv.log) = 4
    /\ srv.log[1].method = "start" /\ ~srv.log[1].raised
    /\ srv.log[2].method = "health_check"
    /\ srv.log[2].gateway
    /\ srv.log[2].health.status = "unhealthy"
    /\ srv.log[2].health.server_running
    /\ srv.log[3].method = "stop"
    /\ srv.log[4].method = "health_check"
    /\ ~srv.log[4].gateway
    /\ srv.log[4].health.details = NotConnectedDetails

-----------------------------------------------------------------------------
(* Further properties of the breakers and of the retry loop of the manager *)

\* the state changes a CircuitBreaker is meant to make
BreakerTransitions ==
    {<<CLOSED, OPEN>>, <<OPEN, HALF_OPEN>>, <<HALF_OPEN, CLOSED>>, <<HALF_OPEN, OPEN>>}

\* C32: a breaker of the manager changes state only from closed to open, from
\* open to half_open, from half_open to closed and from half_open to open; in
\* particular an open breaker does not become closed in one step.
C32_OnlyFourTransitions ==
    [][\A b \in DOMAIN breakers :
          breakers'[b].state # breakers[b].state
             => <<breakers[b].state, breakers'[b].state>> \in BreakerTransitions]_vars

\* C34: whatever methods were called on a CircuitBreaker with failure_threshold
\* >= 1, in whatever order, it is closed exactly when failure_count is below
\* failure_threshold; so a record_failure on a half-open breaker leaves it open.
C34_ClosedIffBelowThreshold ==
    /\ cb.config.failure_threshold >= 1
    /\ cb.state = CLOSED <=> cb.failure_count < cb.config.failure_threshold
    /\ (last.op = "record_failure" /\ last.pre.state = HALF_OPEN) => cb.state = OPEN

\* the trial of a half-open breaker with threshold 2 failed: open again
C34_Witness ==
    /\ last.op = "record_failure"
    /\ last.pre.state = HALF_OPEN
    /\ cb.state = OPEN
    /\ cb.config.failure_threshold = 2
    /\ cb.failure_count = 3

\* the call of a caller is under way / is over
UnderWay(c) == calls[c].r.pc \in {"running", "sleeping"}
Over(c) == calls[c].r.pc \in {"returned", "raised"}

\* C33: an execute_with_resilience call invokes its operation at most
\* max_attempts times and sleeps at most max_attempts - 1 times, never after
\* the last attempt; a call that is over has invoked the operation or was
\* refused by the breaker; and, when every invocation of the operation
\* terminates and every sleep ends, every call under way comes to be over.
C33_CallTerminates ==
    /\ [](\A c \in {"a"} :
             /\ calls[c].invoked <= calls[c].config.max_attempts
             /\ calls[c].r.attempt <= calls[c].config.max_attempts
             /\ calls[c].r.slept <= calls[c].config.max_attempts - 1
             /\ calls[c].r.pc = "sleeping" =>
                   calls[c].r.attempt < calls[c].config.max_attempts
             /\ Over(c) =>
                   /\ calls[c].invoked >= 1 \/ calls[c].rejected >= 1
                   /\ calls[c].r.slept <= calls[c].r.attempt - 1)
    /\ UnderWay("a") ~> Over("a")

\* a call under the database_connection policy used all 5 attempts and 4 sleeps
\* and raised; the breaker let 3 of the attempts reach the operation
C33_Witness ==
    \E c \in {"a"} :
        /\ calls[c].r.pc = "raised"
        /\ calls[c].config.max_attempts = 5
        /\ calls[c].r.attempt = 5
        /\ calls[c].r.slept = 4
        /\ calls[c].invoked >= 1

-----------------------------------------------------------------------------
(* Further properties of the gateway behind database_resilient, under SpecDB *)

\* in this step the gateway method of caller c raised a RetryableError, which
\* carries the ErrorType the gateway gave it
GatewayRaised(c) ==
    /\ calls'[c].func \in GatewayFuncs
    /\ calls'[c].failures = (IF calls'[c].func = calls[c].func /\ UnderWay(c)
                             THEN calls[c].failures ELSE 0) + 1
    /\ calls'[c].underlying # << >>
    /\ calls'[c].underlying[1].cls = RetryableErrorCls

\* C35: when a gateway method raises a RetryableError tagged with an ErrorType,
\* the manager counts the failure under that ErrorType, and the error the
\* retry loop is handed (and propagates when it gives up) carries it.
C35_TypePreserved ==
    [][\A c \in Callers :
          GatewayRaised(c) =>
             LET et == calls'[c].underlying[1].error_type
             IN  /\ error_counts'[et] = error_counts[et] + 1
                 /\ calls'[c].r.pc = "raised" => calls'[c].r.result.error_type = et
                 /\ calls'[c].r.pc = "sleeping" =>
                       calls'[c].r.last_exception[1].error_type = et]_vars

\* C36: a connect() call made while the gateway holds no driver, and before
\* any connect attempt has failed (every failure of connect is counted as
\* database_connection), runs connect at least once: the failures of earlier
\* health_check and execute_query calls do not make the breaker refuse it.
C36_ConnectAdmitted ==
    [][\A c \in Callers :
          (/\ started' = started + 1
           /\ calls'[c] # calls[c]
           /\ calls'[c].func = "connect"
           /\ db.driver = NoDriver
           /\ error_counts[DATABASE_CONNECTION] = 0)
             => calls'[c].invoked >= 1]_vars

\* C37: whatever calls were made on the gateway, _connected is true only
\* while a driver is held, so that is_connected equals _connected; and a read
\* of is_connected returns that value and changes nothing in the gateway.
C37_ConnectedHoldsDriver ==
    /\ [](/\ gw.db.connected => gw.db.driver # NoDriver
          /\ is_connected(gw.db) = gw.db.connected)
    /\ [][Len(gw'.log) = Len(gw.log) + 1 /\ LastOp'.op = "is_connected" =>
             /\ gw'.read = <<gw.db.connected>>
             /\ gw'.db = gw.db
             /\ gw'.creates = gw.creates
             /\ gw'.closes = gw.closes
             /\ gw'.sessions = gw.sessions]_vars

\* is_connected read as true after a failed query on a connected gateway, and
\* as false earlier
C37_Witness ==
    /\ Len(gw.log) = MaxGatewayOps
    /\ gw.log[1].op = "is_connected"
    /\ gw.log[2].op = "connect" /\ gw.log[2].out = Ok
    /\ gw.log[3].op = "execute_query" /\ gw.log[3].out # Ok
    /\ gw.log[4].op = "is_connected"
    /\ gw.read = <<TRUE>>

\* C38: of the drivers the gateway created, at most one is not closed yet,
\* and none once disconnect() has returned.
C38_OneOpenDriver ==
    /\ gw.creates - gw.closes <= 1
    /\ Len(gw.log) > 0 /\ LastOp.op = "disconnect" => gw.creates = gw.closes

\* C39: whatever the pattern_type, a shaped result that has a 'node' field
\* holds in it the node of the row it was shaped from.
C39_NodeOfRow ==
    svc.pc = "returned" =>
        \A i \in 1..Len(svc.rows) :
            LET shaped == svc.result[1].results[i]
            IN  "node" \in DOMAIN shaped =>
                   \A col \in {"connected", "bridge"} \cap DOMAIN svc.rows[i] :
                       shaped.node = <<svc.rows[i][col]>>

\* the response has the status code and an APIResponse body with success
\* false whose error text starts with the words of the bucket
InBucket(response, status_code, bucket) ==
    /\ response.status_code = status_code
    /\ "success" \in DOMAIN response.body
    /\ response.body.success = FALSE
    /\ response.body.error # None
    /\ Len(response.body.error[1]) >= Len(bucket)
    /\ SubSeq(response.body.error[1], 1, Len(bucket)) = bucket

IsDatabaseError(cls) == \E i \in 1..Len(mro(cls)) : mro(cls)[i] = DatabaseErrorCls

\* C31: the search endpoint answers a ValueError of the service with 422, a
\* QueryError with 400 and any other DatabaseError with 500, each time with a
\* body whose success is false and whose error text names the bucket.
C31_ErrorBuckets ==
    \A i \in 1..Len(api.log) :
        LET e == api.log[i]
        IN  /\ e.service.cls = ValueErrorCls =>
                  InBucket(e.response, 422, <<"Validation", "error", ":">>)
            /\ e.service.cls = QueryErrorCls =>
                  InBucket(e.response, 400, <<"Query", "error", ":">>)
            /\ IsDatabaseError(e.service.cls) /\ e.service.cls # QueryErrorCls =>
                  InBucket(e.response, 500, <<"Database", "error", ":">>)


====
